---------------------------- MODULE Spec2Model ----------------------------
(***************************************************************************)
(* State-machine model of the RAG-demo backend services:                   *)
(*   - VectorStore            (app/services/vector_store.py)               *)
(*   - TFidfEmbeddingService  (app/services/tfidf_embedding_service.py)    *)
(*   - DocumentProcessor      (app/services/document_processor.py)         *)
(*   - TokenUsageMonitor      (app/services/token_usage_monitor.py)        *)
(*   - RAGService / LLMService (app/services/rag_service.py,               *)
(*                              app/services/llm_service.py)               *)
(*   - the configuration endpoints (app/api/v1/endpoints/config.py)        *)
(*                                                                         *)
(* Representation choices                                                  *)
(*   - A text is a sequence of one-character strings.                      *)
(*   - A 32-bit chunk id is a pair <<hi, lo>> of 16-bit halves, so that    *)
(*     the full unsigned range of int.from_bytes(md5[:4]) is kept.         *)
(*   - scikit-learn's TF-IDF weighting is abstracted to binary term        *)
(*     weights: a sparse vector is the set of vocabulary positions of the  *)
(*     character n-grams present in the text.  An L2-normalised vector is  *)
(*     then determined by its set of non-zero positions.                   *)
(*   - Similarity scores, the similarity threshold and the temperature are *)
(*     fixed-point integers (score and threshold in 1/100, temperature in  *)
(*     1/10).                                                              *)
(*   - The files written by _save_index are kept as the variable disk; a   *)
(*     write can fail.  The running process never reads them back (nothing *)
(*     evaluates the VectorStore.index property).                          *)
(***************************************************************************)
EXTENDS Integers, Sequences, FiniteSets, TLC

(***************************************************************************)
(* Bounds of the model                                                     *)
(***************************************************************************)
\* number of documents that can be uploaded in one behaviour
NumDocs == 2
\* largest number of chunks of one uploaded document
MaxChunksPerDoc == 2

(***************************************************************************)
(* Inputs                                                                  *)
(***************************************************************************)
\* chunk contents and query texts (single words)
Contents == << <<"a", "b">>, <<"a", "d">>, <<"c">>, <<"d">> >>

\* the contents of the documents uploaded to the store
ContentSet == {Contents[1], Contents[2]}

ContentIndex(c) == CHOOSE i \in 1..Len(Contents) : Contents[i] = c

\* chunk lists of one document: 0..MaxChunksPerDoc contents
ChunkLists == UNION {[1..n -> ContentSet] : n \in 0..MaxChunksPerDoc}

(***************************************************************************)
(* 32-bit unsigned integers as <<hi, lo>>                                  *)
(***************************************************************************)
U32(n) == <<n \div 65536, n % 65536>>

\* int.from_bytes(md5(f"{document_id}_{chunk_index}_{content[:100]}")[:4]),
\* tabulated for document ids doc_000000000001 .. doc_000000000006,
\* chunk_index 0..3 and the texts of Contents.
Md5Prefix ==
  <<
     << << <<4060, 42994>>, <<35119, 53785>>, <<17000, 17323>>, <<6473, 23281>> >>,
        << <<41835, 37136>>, <<24687, 51071>>, <<17070, 63563>>, <<41267, 39652>> >>,
        << <<63049, 53883>>, <<27845, 4083>>, <<25456, 14651>>, <<55970, 56447>> >>,
        << <<64604, 9679>>, <<18868, 46821>>, <<24208, 25767>>, <<32091, 39974>> >> >>,
     << << <<7909, 36967>>, <<54452, 54803>>, <<63351, 36233>>, <<29114, 54106>> >>,
        << <<54936, 61235>>, <<53317, 27106>>, <<58855, 992>>, <<32328, 3104>> >>,
        << <<16544, 28588>>, <<48180, 57375>>, <<50130, 44140>>, <<7791, 26447>> >>,
        << <<28289, 8520>>, <<25883, 7881>>, <<38173, 60109>>, <<36687, 1398>> >> >>,
     << << <<14734, 13610>>, <<20378, 6668>>, <<25609, 10294>>, <<44789, 36700>> >>,
        << <<140, 44381>>, <<63533, 5131>>, <<42947, 31448>>, <<11926, 14548>> >>,
        << <<33414, 50142>>, <<2595, 47835>>, <<39127, 59358>>, <<3980, 20310>> >>,
        << <<4136, 17024>>, <<61983, 19783>>, <<24740, 34657>>, <<41144, 14309>> >> >>,
     << << <<64055, 4077>>, <<48147, 15590>>, <<28135, 8008>>, <<6424, 63186>> >>,
        << <<49295, 54744>>, <<13251, 46098>>, <<21064, 50450>>, <<15544, 3247>> >>,
        << <<56318, 40788>>, <<55889, 22482>>, <<22662, 37070>>, <<47173, 41500>> >>,
        << <<47486, 50068>>, <<54624, 49175>>, <<21045, 5197>>, <<51689, 60139>> >> >>,
     << << <<18036, 54067>>, <<17896, 22506>>, <<36830, 20626>>, <<54194, 5279>> >>,
        << <<60328, 16365>>, <<21118, 16708>>, <<33601, 14211>>, <<3205, 51823>> >>,
        << <<34037, 49571>>, <<45447, 25525>>, <<5856, 60038>>, <<63717, 4535>> >>,
        << <<63427, 39190>>, <<21248, 11656>>, <<15447, 6665>>, <<5320, 28135>> >> >>,
     << << <<21816, 12916>>, <<41049, 55036>>, <<13625, 44251>>, <<26986, 2106>> >>,
        << <<1990, 47349>>, <<23611, 64691>>, <<8251, 16993>>, <<32594, 24840>> >>,
        << <<48082, 28778>>, <<50643, 64233>>, <<18497, 41902>>, <<59163, 31615>> >>,
        << <<17525, 12184>>, <<3632, 365>>, <<850, 3173>>, <<33507, 64363>> >> >> >>

\* VectorStore._generate_chunk_id
_generate_chunk_id(chunk) ==
  Md5Prefix[chunk.document_id][chunk.chunk_index + 1][ContentIndex(chunk.content)]

(***************************************************************************)
(* TFidfEmbeddingService: vocabulary and vectors                           *)
(***************************************************************************)
\* code points of the characters used in the inputs (ordering of features)
CharCode ==
  (" " :> 32) @@ ("." :> 46) @@ ("A" :> 65) @@
  ("a" :> 97) @@ ("b" :> 98) @@ ("c" :> 99) @@ ("d" :> 100)

\* analyzer='char_wb', ngram_range=(1, 2): the word is padded with one
\* space on each side; features are its character 1-grams and 2-grams
CharWbNgrams(text) ==
  IF Len(text) = 0 THEN {}
  ELSE LET padded == <<" ">> \o text \o <<" ">>
       IN  {<<padded[i]>> : i \in 1..Len(padded)}
             \cup {<<padded[i], padded[i + 1]>> : i \in 1..(Len(padded) - 1)}

\* lexicographic order of features (scikit-learn sorts the vocabulary)
TermLess(s, t) ==
  \/ CharCode[s[1]] < CharCode[t[1]]
  \/ /\ s[1] = t[1]
     /\ \/ Len(s) < Len(t)
        \/ /\ Len(s) = 2
           /\ Len(t) = 2
           /\ CharCode[s[2]] < CharCode[t[2]]

\* TfidfVectorizer.fit: the vocabulary learnt from a corpus
FitVocabulary(texts) == UNION {CharWbNgrams(texts[i]) : i \in 1..Len(texts)}

\* feature index of a term of the vocabulary (0-based)
FeatureIndex(t, V) == Cardinality({u \in V : TermLess(u, t)})

\* TfidfVectorizer.transform(...).toarray() of one text: a vector of
\* length |V| given by the positions of its non-zero weights
SparseVector(text, V) ==
  [len |-> Cardinality(V),
   nz  |-> {FeatureIndex(t, V) : t \in CharWbNgrams(text) \cap V}]

(***************************************************************************)
(* State                                                                   *)
(***************************************************************************)
VARIABLES
  index,          \* VectorStore._index: <<>> (None) or <<seq of vectors>>
  embedding_dim,  \* VectorStore._embedding_dim
  metadata,       \* VectorStore._metadata: insertion-ordered map (seq of entries)
  documents,      \* VectorStore._documents: insertion-ordered map (seq of entries)
  tfidf_fitted,   \* VectorStore._tfidf_fitted
  disk,           \* the files index.faiss and metadata.pkl of the store
  es_fitted,      \* TFidfEmbeddingService._fitted
  vocabulary,     \* TFidfEmbeddingService.vectorizer.vocabulary_
  next_doc,       \* number of the next generated document id
  token_file,     \* TokenUsageMonitor: the record stored in token_usage.json
  today,          \* the current date (day number), date.today()
  calls,          \* ledger calls in progress: position, argument, record read
  chunk_size,     \* DocumentProcessor.chunk_size
  chunk_overlap,  \* DocumentProcessor.chunk_overlap
  cc_text,        \* _create_chunks: text, the text being split
  cc_start,       \* _create_chunks: start, the start of the next window
  cc_chunks,      \* _create_chunks: chunks, the chunks produced so far
  cc_pc,          \* _create_chunks: "idle", "loop" or "done"
  doc_status,     \* process_document: document.status ("none": no Document yet)
  pd_pc,          \* process_document: position of the coroutine
  config,         \* RAGService.config (RAGConfig)
  settings,       \* the global settings that update_config overwrites
  files,          \* the documents directory: the uploaded files by stem
  rebuild,        \* rebuild_index: the coroutine of a running rebuild
  upload,         \* upload_document: the coroutine of a running upload
  generation,     \* the generation call that the event loop is waiting in
  last            \* the last operation with its arguments and result

storeVars == <<index, embedding_dim, metadata, documents, tfidf_fitted, disk>>
embedVars == <<es_fitted, vocabulary>>
ledgerVars == <<token_file, today, calls>>
chunkVars == <<chunk_size, chunk_overlap, cc_text, cc_start, cc_chunks, cc_pc,
               doc_status, pd_pc>>
configVars == <<config, settings>>
serverVars == <<files, rebuild, upload, generation>>

vars == <<index, embedding_dim, metadata, documents, tfidf_fitted, disk,
          es_fitted, vocabulary, next_doc, token_file, today, calls,
          chunk_size, chunk_overlap, cc_text, cc_start, cc_chunks, cc_pc,
          doc_status, pd_pc, config, settings, files, rebuild, upload,
          generation, last>>

\* no coroutine of the kind is running
NoRebuild == [pc |-> "idle"]
NoUpload == [pc |-> "idle"]
NoGeneration == [pc |-> "idle"]

\* no handler is inside a synchronous call
EventLoopFree == generation.pc = "idle"

(***************************************************************************)
(* VectorStore helpers                                                     *)
(***************************************************************************)
NoIndex == <<>>
HasIndex == Len(index) = 1
\* faiss index.ntotal (0 when there is no index object)
Ntotal == IF HasIndex THEN Len(index[1]) ELSE 0

\* d[key] = value on an insertion-ordered dict
DictPut(d, key, value) ==
  IF \E i \in 1..Len(d) : d[i].id = key
    THEN [i \in 1..Len(d) |-> IF d[i].id = key THEN value ELSE d[i]]
    ELSE Append(d, value)

DictKeys(d) == {d[i].id : i \in 1..Len(d)}

\* dict / list comprehension with a filter, order preserved
RECURSIVE SelectSeqOrd(_, _)
SelectSeqOrd(s, keep) ==
  IF Len(s) = 0 THEN <<>>
  ELSE IF Head(s) \in keep THEN <<Head(s)>> \o SelectSeqOrd(Tail(s), keep)
  ELSE SelectSeqOrd(Tail(s), keep)

\* VectorStore._create_dense_embedding: pad or truncate to dim, L2-normalise
_create_dense_embedding(sparse_vector, dim) ==
  {p \in sparse_vector.nz : p < dim}

\* VectorStore._create_index: fixed dimension for FAISS
FaissDimension == 512

\* uploaded file name of a document (document_name of its chunks)
FileName(doc) == 100 + doc

\* the chunks of one document: chunk_index 0, 1, ... in order
MakeChunks(doc, contents) ==
  [i \in 1..Len(contents) |->
     [document_id |-> doc, chunk_index |-> i - 1, content |-> contents[i]]]

\* the metadata entry stored for a chunk (vector_store.py:209-216)
MetaEntry(chunk, document_name) ==
  [id            |-> _generate_chunk_id(chunk),
   document_id   |-> chunk.document_id,
   \* document_name or chunk.document_id (0: the empty name)
   document_name |-> IF document_name # 0 THEN document_name
                     ELSE chunk.document_id,
   chunk_index   |-> chunk.chunk_index,
   content       |-> chunk.content]

\* the cached content stored for a chunk (vector_store.py:217)
DocEntry(chunk) ==
  [id |-> _generate_chunk_id(chunk), content |-> chunk.content]

RECURSIVE PutMeta(_, _, _)
PutMeta(d, chunks, document_name) ==
  IF Len(chunks) = 0 THEN d
  ELSE PutMeta(DictPut(d, _generate_chunk_id(Head(chunks)),
                       MetaEntry(Head(chunks), document_name)),
               Tail(chunks), document_name)

RECURSIVE PutDocs(_, _)
PutDocs(d, chunks) ==
  IF Len(chunks) = 0 THEN d
  ELSE PutDocs(DictPut(d, _generate_chunk_id(Head(chunks)), DocEntry(Head(chunks))),
               Tail(chunks))

(***************************************************************************)
(* VectorStore._save_index and VectorStore._create_index                   *)
(* A store value is a record of the fields of the VectorStore, the files   *)
(* on disk, and "raised": has the call propagated an exception?            *)
(***************************************************************************)
\* what one call of _save_index manages to write: both files, only
\* index.faiss (pickle.dump fails), or nothing (faiss.write_index fails)
SaveOutcomes == {"saved", "index_only", "failed"}

\* the outcomes of the (at most two) calls of _save_index of one operation
SaveSequences == [1..2 -> SaveOutcomes]

\* the disk works
AllSaved == <<"saved", "saved">>

\* no index.faiss and no metadata.pkl
NoFiles == [index_file |-> <<>>, metadata_file |-> <<>>]

CurrentStore ==
  [index         |-> index,
   embedding_dim |-> embedding_dim,
   metadata      |-> metadata,
   documents     |-> documents,
   tfidf_fitted  |-> tfidf_fitted,
   disk          |-> disk,
   raised        |-> FALSE]

\* a variant that lets a failed write propagate to the caller
_save_index_Raising(st, outcome) ==
  IF st.index = NoIndex THEN st
  ELSE [st EXCEPT
          !.disk = [index_file    |-> IF outcome = "failed" THEN @.index_file
                                      ELSE <<st.index[1]>>,
                    metadata_file |-> IF outcome = "saved"
                                        THEN <<[metadata      |-> st.metadata,
                                                documents     |-> st.documents,
                                                embedding_dim |-> st.embedding_dim]>>
                                        ELSE @.metadata_file],
          !.raised = (outcome # "saved")]

\* VectorStore._save_index: every exception of the writes is caught and
\* logged inside the method
_save_index(st, outcome) ==
  IF st.index = NoIndex THEN st
  ELSE [st EXCEPT
          !.disk = [index_file    |-> IF outcome = "failed" THEN @.index_file
                                      ELSE <<st.index[1]>>,
                    metadata_file |-> IF outcome = "saved"
                                        THEN <<[metadata      |-> st.metadata,
                                                documents     |-> st.documents,
                                                embedding_dim |-> st.embedding_dim]>>
                                        ELSE @.metadata_file]]

\* VectorStore._create_index
_create_index(st, outcome) ==
  _save_index([st EXCEPT !.embedding_dim = FaissDimension, !.index = << <<>> >>],
              outcome)

\* the fields of the VectorStore and the files become those of st
StoreBecomes(st) ==
  /\ index' = st.index
  /\ embedding_dim' = st.embedding_dim
  /\ metadata' = st.metadata
  /\ documents' = st.documents
  /\ tfidf_fitted' = st.tfidf_fitted
  /\ disk' = st.disk

(***************************************************************************)
(* VectorStore.add_chunks: the store afterwards (the fit of the embedding  *)
(* service at lines 178-183 is part of UploadDocument)                     *)
(***************************************************************************)
add_chunks_to(st, chunks, embeddings, document_name, saves) ==
  IF Len(chunks) = 0 \/ Len(embeddings) = 0
  THEN \* "No chunks or embeddings to add"
       st
  ELSE LET fitted == [st EXCEPT !.tfidf_fitted = TRUE]
           \* _index is None: _embedding_dim = max(len(first), 1), then
           \* _create_index() overwrites it with the fixed dimension
           created == IF st.index # NoIndex THEN fitted
                      ELSE _create_index(fitted, saves[1])
           dense == [i \in 1..Len(embeddings) |->
                       _create_dense_embedding(embeddings[i], created.embedding_dim)]
           added == [created EXCEPT
                       !.index = <<created.index[1] \o dense>>,
                       !.metadata = PutMeta(st.metadata, chunks, document_name),
                       !.documents = PutDocs(st.documents, chunks)]
       IN  IF created.raised THEN created
           ELSE \* the final save runs inside try/except (lines 219-224)
                [_save_index(added, saves[2]) EXCEPT !.raised = FALSE]

\* add_chunks on the store as it is
add_chunks(chunks, embeddings, document_name, saves) ==
  add_chunks_to(CurrentStore, chunks, embeddings, document_name, saves)

(***************************************************************************)
(* upload_document (document.py:95-103): encode the chunk texts, then add  *)
(* the chunks of the new document to the store                             *)
(***************************************************************************)
\* embedding_service.encode(chunk_texts): a lazy fit on the batch when the
\* service was never fitted, then one vector per text
EncodeVocabulary(contents) ==
  IF Len(contents) > 0 /\ ~es_fitted THEN FitVocabulary(contents) ELSE vocabulary

Encode(contents) ==
  [i \in 1..Len(contents) |-> SparseVector(contents[i], EncodeVocabulary(contents))]

\* the store after vector_store.add_chunks(chunks, embeddings, document_name)
AddDocument(doc, contents, saves) ==
  add_chunks(MakeChunks(doc, contents), Encode(contents), FileName(doc), saves)

UploadDocument(contents, saves) ==
  /\ next_doc <= NumDocs
  /\ LET doc == next_doc
         \* add_chunks fits the embedding service when the store never did
         fits == Len(contents) > 0 /\ ~tfidf_fitted
         st == AddDocument(doc, contents, saves)
     IN  /\ vocabulary' = IF fits THEN FitVocabulary(contents)
                          ELSE EncodeVocabulary(contents)
         /\ es_fitted' = (es_fitted \/ Len(contents) > 0)
         /\ StoreBecomes(st)
         /\ next_doc' = next_doc + 1
         /\ last' = [op |-> "add", arg |-> doc, ret |-> Len(contents),
                     raised |-> st.raised]
         /\ UNCHANGED <<ledgerVars, chunkVars, configVars, serverVars>>

(***************************************************************************)
(* VectorStore.delete_by_document_id and VectorStore._remove_ids           *)
(***************************************************************************)
\* ids_to_delete: the chunk ids whose metadata names the document
IdsOfDocument(document_id) ==
  {metadata[i].id : i \in {j \in 1..Len(metadata) :
                              metadata[j].document_id = document_id}}

\* positions 0..ntotal-1 of the index that are not in id_set
KeepPositions(id_set) == {p \in 0..(Ntotal - 1) : U32(p) \notin id_set}

\* VectorStore._remove_ids: the store afterwards
_remove_ids(id_set, saves) ==
  IF KeepPositions(id_set) = {}
  THEN \* not keep_ids: _create_index(), empty maps
       LET created == _create_index(CurrentStore, saves[1])
       IN  IF created.raised THEN created
           ELSE [created EXCEPT !.metadata = <<>>, !.documents = <<>>]
  ELSE _save_index(
         [CurrentStore EXCEPT
            !.index = << [i \in 1..Cardinality(KeepPositions(id_set)) |->
                            index[1][1 + CHOOSE p \in KeepPositions(id_set) :
                               Cardinality({q \in KeepPositions(id_set) : q < p}) = i - 1]] >>,
            !.metadata = SelectSeqOrd(metadata,
                            {metadata[i] : i \in {j \in 1..Len(metadata) :
                                                    metadata[j].id \notin id_set}}),
            !.documents = SelectSeqOrd(documents,
                            {documents[i] : i \in {j \in 1..Len(documents) :
                                                     documents[j].id \notin id_set}})],
         saves[1])

\* VectorStore.delete_by_document_id: the store afterwards
delete_by_document_id(document_id, saves) ==
  IF ~HasIndex \/ IdsOfDocument(document_id) = {}
    THEN CurrentStore
    ELSE _remove_ids(IdsOfDocument(document_id), saves)

DeleteByDocumentId(document_id, saves) ==
  /\ StoreBecomes(delete_by_document_id(document_id, saves))
  /\ last' = [op |-> "delete", arg |-> document_id,
              ret |-> IF ~HasIndex THEN 0
                      ELSE Cardinality({j \in 1..Len(metadata) :
                              metadata[j].document_id = document_id}),
              raised |-> delete_by_document_id(document_id, saves).raised]
  /\ UNCHANGED <<embedVars, next_doc, ledgerVars, chunkVars, configVars, serverVars>>

(***************************************************************************)
(* VectorStore.clear                                                       *)
(***************************************************************************)
\* a variant that leaves the "vectorizer has been fit" flag as it is
clear_KeepsFitted(saves) ==
  LET created == _create_index(CurrentStore, saves[1])
  IN  IF created.raised THEN created
      ELSE _save_index([created EXCEPT !.metadata = <<>>, !.documents = <<>>],
                       saves[2])

\* the store after clear()
clear(saves) ==
  LET created == _create_index(CurrentStore, saves[1])
  IN  IF created.raised THEN created
      ELSE _save_index([created EXCEPT !.metadata = <<>>,
                                       !.documents = <<>>,
                                       !.tfidf_fitted = FALSE],
                       saves[2])

Clear(saves) ==
  /\ StoreBecomes(clear(saves))
  /\ last' = [op |-> "clear", arg |-> 0, ret |-> 0, raised |-> clear(saves).raised]
  /\ UNCHANGED <<embedVars, next_doc, ledgerVars, chunkVars, configVars, serverVars>>

(***************************************************************************)
(* VectorStore.get_stats                                                   *)
(***************************************************************************)
get_stats ==
  [total_vectors   |-> Ntotal,
   dimension       |-> embedding_dim,
   metadata_count  |-> Len(metadata),
   documents_count |-> Cardinality({metadata[i].document_id : i \in 1..Len(metadata)})]

GetStats ==
  /\ last' = [op |-> "stats", arg |-> 0, ret |-> get_stats]
  /\ UNCHANGED <<storeVars, embedVars, next_doc, ledgerVars, chunkVars, configVars, serverVars>>

(***************************************************************************)
(* TFidfEmbeddingService.search and VectorStore.search_by_text             *)
(***************************************************************************)
\* the largest s in lo..hi with s * s <= n (given lo * lo <= n)
RECURSIVE IsqrtBetween(_, _, _)
IsqrtBetween(n, lo, hi) ==
  IF lo = hi THEN lo
  ELSE LET mid == (lo + hi + 1) \div 2
       IN  IF mid * mid <= n THEN IsqrtBetween(n, mid, hi)
           ELSE IsqrtBetween(n, lo, mid - 1)

\* cosine_similarity of two sparse vectors, in 1/100 (rounded down):
\* dot / (|q| * |d|) with unit weights
CosinePct(q, d) ==
  IF q.nz = {} \/ d.nz = {} THEN 0
  ELSE LET dot == Cardinality(q.nz \cap d.nz)
           nn  == Cardinality(q.nz) * Cardinality(d.nz)
       IN  IsqrtBetween((10000 * dot * dot) \div nn, 0, 100)

\* a sequence given by a function constructor, as a tuple
AsTuple(f) == SubSeq(f, 1, Len(f))

\* np.argsort(similarities)[::-1]: positions by decreasing score; equal
\* scores come out in decreasing position (a stable ascending sort, reversed)
RankedBefore(sims, i, j) ==
  sims[i] > sims[j] \/ (sims[i] = sims[j] /\ i > j)

ArgsortDescending(sims) ==
  AsTuple([r \in 1..Len(sims) |->
     CHOOSE i \in 1..Len(sims) :
       Cardinality({j \in 1..Len(sims) : RankedBefore(sims, j, i)}) = r - 1])

\* Python's s[:k]
PySlicePrefix(s, k) ==
  LET n == IF k >= 0 THEN (IF k < Len(s) THEN k ELSE Len(s))
           ELSE (IF Len(s) + k > 0 THEN Len(s) + k ELSE 0)
  IN  SubSeq(s, 1, n)

\* TFidfEmbeddingService.search with the vocabulary V in effect:
\* list of (index, similarity_score), index 1-based here
embedding_search(query, doc_texts, top_k, V) ==
  IF Len(doc_texts) = 0 \/ Len(query) = 0 THEN <<>>
  ELSE LET query_vec == SparseVector(query, V)
           sims == AsTuple([i \in 1..Len(doc_texts) |->
                      CosinePct(query_vec, SparseVector(doc_texts[i], V))])
           indices == PySlicePrefix(ArgsortDescending(sims), top_k)
       IN  AsTuple([r \in 1..Len(indices) |->
                      [idx |-> indices[r], score |-> sims[indices[r]]]])

\* the vocabulary after encode_single(query): lazy fit when never fitted
VocabularyForSearch(query) ==
  IF es_fitted THEN vocabulary ELSE FitVocabulary(<<query>>)

\* does the call reach the vectorizer?
SearchTouchesVectorizer(query) == Len(documents) > 0 /\ Len(query) > 0

MetaOf(chunk_id) ==
  LET hits == {i \in 1..Len(metadata) : metadata[i].id = chunk_id}
  IN  IF hits = {} THEN <<>> ELSE <<metadata[CHOOSE i \in hits : TRUE]>>

\* VectorStore.search_by_text: list of SearchResult
search_by_text(query_text, top_k) ==
  IF Len(documents) = 0 THEN <<>>
  ELSE LET doc_texts == AsTuple([i \in 1..Len(documents) |-> documents[i].content])
           results == embedding_search(query_text, doc_texts, top_k,
                                       VocabularyForSearch(query_text))
           found == {r \in 1..Len(results) :
                       MetaOf(documents[results[r].idx].id) # <<>>}
       IN  AsTuple([n \in 1..Cardinality(found) |->
              LET r == CHOOSE x \in found :
                         Cardinality({y \in found : y < x}) = n - 1
                  m == MetaOf(documents[results[r].idx].id)[1]
              IN  [chunk_id         |-> documents[results[r].idx].id,
                   document_id      |-> m.document_id,
                   document_name    |-> m.document_name,
                   chunk_index      |-> m.chunk_index,
                   content          |-> m.content,
                   similarity_score |-> results[r].score]])

\* effect of a text search on the embedding service
SearchEffect(query) ==
  IF SearchTouchesVectorizer(query)
    THEN /\ es_fitted' = TRUE
         /\ vocabulary' = VocabularyForSearch(query)
    ELSE UNCHANGED embedVars

\* search_documents (chat.py:75-115)
SearchDocuments(query, top_k) ==
  /\ last' = [op |-> "search", arg |-> <<query, top_k>>,
              ret |-> search_by_text(query, top_k)]
  /\ SearchEffect(query)
  /\ UNCHANGED <<storeVars, next_doc, ledgerVars, chunkVars, configVars, serverVars>>

(***************************************************************************)
(* VectorStore.search: dense search on the FAISS index                     *)
(***************************************************************************)
\* inner product of two L2-normalised dense vectors, in 1/100
InnerProductPct(q, d) == CosinePct([nz |-> q], [nz |-> d])

\* IndexFlatIP.search(query, k): the positions of the k best vectors by
\* decreasing inner product (equal scores: lower position first); the
\* slots that faiss fills with -1 when k > ntotal are left out
faiss_search(query_dense, k) ==
  LET scores == AsTuple([i \in 1..Ntotal |-> InnerProductPct(query_dense, index[1][i])])
      Before(i, j) == scores[i] > scores[j] \/ (scores[i] = scores[j] /\ i < j)
      order == AsTuple([r \in 1..Ntotal |->
                 CHOOSE i \in 1..Ntotal :
                   Cardinality({j \in 1..Ntotal : Before(j, i)}) = r - 1])
      hits == PySlicePrefix(order, k)
  IN  AsTuple([r \in 1..Len(hits) |-> [idx |-> hits[r] - 1, score |-> scores[hits[r]]]])

\* VectorStore.search: the metadata of a hit is looked up under str(idx),
\* idx being the position of the vector in the index
search(query_embedding, top_k) ==
  IF ~HasIndex \/ Ntotal = 0 THEN <<>>
  ELSE LET query_dense == _create_dense_embedding(query_embedding, embedding_dim)
           found == faiss_search(query_dense, top_k)
           WithMetadata(hit) == MetaOf(U32(hit.idx)) # <<>>
           kept == SelectSeq(found, WithMetadata)
       IN  AsTuple([n \in 1..Len(kept) |->
              [chunk_id         |-> U32(kept[n].idx),
               document_id      |-> MetaOf(U32(kept[n].idx))[1].document_id,
               document_name    |-> 0,
               chunk_index      |-> MetaOf(U32(kept[n].idx))[1].chunk_index,
               content          |-> MetaOf(U32(kept[n].idx))[1].content,
               similarity_score |-> kept[n].score]])

\* a caller encodes the query text with the vocabulary in effect and
\* searches the index with the vector
DenseSearch(query, top_k) ==
  /\ last' = [op |-> "dense_search", arg |-> <<query, top_k>>,
              ret |-> search(SparseVector(query, vocabulary), top_k)]
  /\ UNCHANGED <<storeVars, embedVars, next_doc, ledgerVars, chunkVars, configVars, serverVars>>

(***************************************************************************)
(* TokenUsageMonitor                                                       *)
(***************************************************************************)
\* the last day of the modelled calendar
MaxDay == 3

\* TokenUsageMonitor.token_limit
token_limit == 2000000

\* token counts reported by the generation client
TokenCounts == {1000000, 2000000, 2000001}

\* _ensure_token_file_exists: the record written when there is no file
InitialTokenFile(day) ==
  [last_reset_date |-> day, daily_usage |-> 0, usage_history |-> <<>>]

\* data["usage_history"][key] = value
HistoryPut(h, key, value) ==
  [d \in (DOMAIN h) \cup {key} |-> IF d = key THEN value ELSE h[d]]

\* TokenUsageMonitor._check_and_reset_daily_usage: the record afterwards
_check_and_reset_daily_usage(data, day) ==
  IF data.last_reset_date < day
    THEN [last_reset_date |-> day,
          daily_usage     |-> 0,
          usage_history   |->
            IF data.daily_usage > 0
              THEN HistoryPut(data.usage_history, data.last_reset_date,
                              data.daily_usage)
              ELSE data.usage_history]
    ELSE data

\* a comparison that also refuses a usage equal to the limit
ExceedsLimit_AtLimit(new_usage) == new_usage >= token_limit

\* the quota comparison of add_token_usage
ExceedsLimit(new_usage) == new_usage > token_limit

\* a variant that records the tokens whatever the quota
add_token_usage_Unchecked(data, tokens) ==
  [data |-> [data EXCEPT !.daily_usage = data.daily_usage + tokens], ret |-> TRUE]

\* TokenUsageMonitor.add_token_usage: the record afterwards and the result
add_token_usage(data, tokens) ==
  LET new_usage == data.daily_usage + tokens
  IN  IF ExceedsLimit(new_usage)
        THEN [data |-> data, ret |-> FALSE]
        ELSE [data |-> [data EXCEPT !.daily_usage = new_usage], ret |-> TRUE]

\* the record read by get_token_usage after the rollover check
get_token_usage(data) ==
  [current_usage   |-> data.daily_usage,
   daily_limit     |-> token_limit,
   remaining       |-> token_limit - data.daily_usage,
   last_reset_date |-> data.last_reset_date]

AddTokenUsage(tokens) ==
  /\ token_file' = add_token_usage(token_file, tokens).data
  /\ last' = [op |-> "add_token_usage", arg |-> tokens,
              ret |-> add_token_usage(token_file, tokens).ret]
  /\ UNCHANGED <<today, calls, storeVars, embedVars, next_doc, chunkVars, configVars, serverVars>>

GetTokenUsage ==
  /\ token_file' = _check_and_reset_daily_usage(token_file, today)
  /\ last' = [op |-> "get_token_usage", arg |-> 0,
              ret |-> get_token_usage(token_file')]
  /\ UNCHANGED <<today, calls, storeVars, embedVars, next_doc, chunkVars, configVars, serverVars>>

CheckLimit(tokens) ==
  /\ token_file' = _check_and_reset_daily_usage(token_file, today)
  /\ last' = [op |-> "check_limit", arg |-> tokens,
              ret |-> (token_file'.daily_usage + tokens <= token_limit)]
  /\ UNCHANGED <<today, calls, storeVars, embedVars, next_doc, chunkVars, configVars, serverVars>>

GetUsageHistory ==
  /\ last' = [op |-> "get_usage_history", arg |-> 0,
              ret |-> token_file.usage_history]
  /\ UNCHANGED <<ledgerVars, storeVars, embedVars, next_doc, chunkVars, configVars, serverVars>>

ResetUsage ==
  /\ token_file' = InitialTokenFile(today)
  /\ last' = [op |-> "reset_usage", arg |-> 0, ret |-> 0]
  /\ UNCHANGED <<today, calls, storeVars, embedVars, next_doc, chunkVars, configVars, serverVars>>

\* a new process: TokenUsageMonitor.__init__ with the file in place
StartMonitor ==
  /\ token_file' = _check_and_reset_daily_usage(token_file, today)
  /\ last' = [op |-> "start_monitor", arg |-> 0, ret |-> 0]
  /\ UNCHANGED <<today, calls, storeVars, embedVars, next_doc, chunkVars, configVars, serverVars>>

\* midnight passes
AdvanceDay ==
  /\ today < MaxDay
  /\ today' = today + 1
  /\ last' = [op |-> "advance_day", arg |-> 0, ret |-> 0]
  /\ UNCHANGED <<token_file, calls, storeVars, embedVars, next_doc, chunkVars, configVars, serverVars>>

(***************************************************************************)
(* Ledger calls that overlap: add_token_usage and                          *)
(* _check_and_reset_daily_usage each read token_usage.json, compute, and   *)
(* write it back; nothing in TokenUsageMonitor holds a lock between the    *)
(* read and the write, so calls of two threads or two server processes     *)
(* interleave at the file operations                                       *)
(***************************************************************************)
\* two callers add tokens, a third one runs the rollover check
Adders == {"adder1", "adder2"}
Roller == "roller"

NoCalls ==
  [c \in Adders \cup {Roller} |->
     [pc |-> "idle", tokens |-> 0, data |-> InitialTokenFile(1), ret |-> FALSE]]

\* add_token_usage, lines 80-81: json.load of the file
AddRead(c, tokens) ==
  /\ calls[c].pc = "idle"
  /\ calls' = [calls EXCEPT ![c] = [pc |-> "read", tokens |-> tokens,
                                    data |-> token_file, ret |-> FALSE]]
  /\ last' = [op |-> "add_read", arg |-> <<c, tokens>>, ret |-> 0]
  /\ UNCHANGED <<token_file, today, storeVars, embedVars, next_doc, chunkVars, configVars, serverVars>>

\* add_token_usage, lines 83-96: the quota check on the record read, then
\* json.dump of that record with the new usage
AddWrite(c) ==
  /\ calls[c].pc = "read"
  /\ token_file' = IF add_token_usage(calls[c].data, calls[c].tokens).ret
                     THEN add_token_usage(calls[c].data, calls[c].tokens).data
                     ELSE token_file
  /\ calls' = [calls EXCEPT ![c].pc = "done",
                            ![c].ret = add_token_usage(calls[c].data, calls[c].tokens).ret]
  /\ last' = [op |-> "add_write", arg |-> <<c, calls[c].tokens>>,
              ret |-> add_token_usage(calls[c].data, calls[c].tokens).ret]
  /\ UNCHANGED <<today, storeVars, embedVars, next_doc, chunkVars, configVars, serverVars>>

\* _check_and_reset_daily_usage, lines 50-51: json.load of the file
RolloverRead ==
  /\ calls[Roller].pc = "idle"
  /\ calls' = [calls EXCEPT ![Roller] = [pc |-> "read", tokens |-> 0,
                                         data |-> token_file, ret |-> FALSE]]
  /\ last' = [op |-> "rollover_read", arg |-> 0, ret |-> 0]
  /\ UNCHANGED <<token_file, today, storeVars, embedVars, next_doc, chunkVars, configVars, serverVars>>

\* _check_and_reset_daily_usage, lines 53-68: the record read is reset and
\* written when its date is before today
RolloverWrite ==
  /\ calls[Roller].pc = "read"
  /\ token_file' = IF calls[Roller].data.last_reset_date < today
                     THEN _check_and_reset_daily_usage(calls[Roller].data, today)
                     ELSE token_file
  /\ calls' = [calls EXCEPT ![Roller].pc = "done",
                            ![Roller].ret = calls[Roller].data.last_reset_date < today]
  /\ last' = [op |-> "rollover_write", arg |-> 0,
              ret |-> calls[Roller].data.last_reset_date < today]
  /\ UNCHANGED <<today, storeVars, embedVars, next_doc, chunkVars, configVars, serverVars>>

(***************************************************************************)
(* DocumentProcessor._create_chunks                                        *)
(***************************************************************************)
\* settings.CHUNK_SIZE and settings.CHUNK_OVERLAP when the environment
\* does not set them
CHUNK_SIZE == 1000
CHUNK_OVERLAP == 200

\* longest raw text handed to _create_chunks
MaxTextLen == 5
\* largest CHUNK_SIZE taken from the environment
MaxChunkSize == 3
\* the splitting loop is cut off after this many chunks
MaxChunks == MaxTextLen + 2

Alphabet == {"a", ".", " ", "\n"}
RawTexts == UNION {[1..n -> Alphabet] : n \in 0..MaxTextLen}

IsSpace(ch) == ch \in {" ", "\n"}
\* str.islower() of one character
IsLower(ch) == ch = "a"

\* str.strip()
RECURSIVE LStrip(_)
LStrip(s) ==
  IF Len(s) > 0 /\ IsSpace(Head(s)) THEN LStrip(Tail(s)) ELSE s

RECURSIVE RStrip(_)
RStrip(s) ==
  IF Len(s) > 0 /\ IsSpace(s[Len(s)]) THEN RStrip(SubSeq(s, 1, Len(s) - 1)) ELSE s

Strip(s) == RStrip(LStrip(s))

\* the elements of s at the positions lo..hi that are in keep, in order
RECURSIVE SelectPositions(_, _, _, _)
SelectPositions(s, keep, lo, hi) ==
  IF lo > hi THEN <<>>
  ELSE IF lo = hi THEN (IF lo \in keep THEN <<s[lo]>> ELSE <<>>)
  ELSE LET mid == (lo + hi) \div 2
       IN  SelectPositions(s, keep, lo, mid) \o SelectPositions(s, keep, mid + 1, hi)

\* re.sub(r'[ \t]+', ' ', text): of a run of spaces the last one is kept
CollapseSpaces(s) ==
  SelectPositions(s, {i \in 1..Len(s) : ~(i < Len(s) /\ s[i] = " " /\ s[i + 1] = " ")},
                  1, Len(s))

\* re.sub(r'\n{3,}', '\n\n', text): of a run of newlines the last two are kept
CollapseNewlines(s) ==
  SelectPositions(s, {i \in 1..Len(s) : ~(/\ i + 2 <= Len(s)
                                          /\ s[i] = "\n"
                                          /\ s[i + 1] = "\n"
                                          /\ s[i + 2] = "\n")},
                  1, Len(s))

\* text.split('\n'), line being the part of the current line already read
RECURSIVE SplitLines(_, _)
SplitLines(s, line) ==
  LET newlines == {i \in 1..Len(s) : s[i] = "\n"}
  IN  IF newlines = {} THEN <<line \o s>>
      ELSE LET first == CHOOSE i \in newlines : \A j \in newlines : i <= j
           IN  <<line \o SubSeq(s, 1, first - 1)>>
                 \o SplitLines(SubSeq(s, first + 1, Len(s)), <<>>)

\* '\n'.join(lines that are not empty after strip)
RECURSIVE JoinLines(_)
JoinLines(lines) ==
  IF Len(lines) = 0 THEN <<>>
  ELSE IF Len(Strip(Head(lines))) = 0 THEN JoinLines(Tail(lines))
  ELSE LET rest == JoinLines(Tail(lines))
       IN  IF Len(rest) = 0 THEN Strip(Head(lines))
           ELSE Strip(Head(lines)) \o <<"\n">> \o rest

\* DocumentProcessor._clean_text
_clean_text(raw) ==
  JoinLines(SplitLines(CollapseNewlines(CollapseSpaces(raw)), <<>>))

\* lookahead of _find_sentence_boundary
window == 200

Min(a, b) == IF a < b THEN a ELSE b

\* text[i] for a 0-based position
At(s, i) == s[i + 1]

\* a variant that also accepts a mark followed by " " and a lowercase letter
IsBoundary_AnyCase(s, i) ==
  /\ At(s, i) \in {".", "!", "?"}
  /\ i + 1 < Len(s)
  /\ At(s, i + 1) = " "

\* is position i a sentence end accepted by _find_sentence_boundary?
IsBoundary(s, i) ==
  /\ At(s, i) \in {".", "!", "?"}
  /\ i + 1 < Len(s)
  /\ At(s, i + 1) = " "
  /\ ~(i + 2 < Len(s) /\ IsLower(At(s, i + 2)))

\* DocumentProcessor._find_sentence_boundary (position >= 0)
_find_sentence_boundary(s, position) ==
  LET end_pos == Min(position + window, Len(s))
      hits == {i \in position..(end_pos - 1) : IsBoundary(s, i)}
  IN  IF hits = {} THEN position
      ELSE (CHOOSE i \in hits : \A j \in hits : i <= j) + 1

\* text[a:b] for 0 <= a
PySlice(s, a, b) == SubSeq(s, a + 1, Min(b, Len(s)))

\* a variant whose window ends where the next one is to start
WindowEnd_Stuck == cc_start + chunk_overlap

\* the end of the window that starts at cc_start
WindowEnd ==
  LET end == cc_start + chunk_size
  IN  IF end < Len(cc_text)
        THEN (IF _find_sentence_boundary(cc_text, end) > cc_start
                THEN _find_sentence_boundary(cc_text, end) ELSE end)
        ELSE end

\* _create_chunks up to the loop (document_processor.py:330-340)
CreateChunksBegin ==
  /\ cc_pc = "idle"
  /\ IF Len(cc_text) = 0 \/ Len(Strip(cc_text)) = 0
       THEN /\ cc_pc' = "done"
            /\ cc_text' = cc_text
       ELSE /\ cc_text' = _clean_text(cc_text)
            /\ cc_pc' = IF 0 < Len(_clean_text(cc_text)) THEN "loop" ELSE "done"
  /\ cc_start' = 0
  /\ cc_chunks' = <<>>
  /\ last' = [op |-> "create_chunks", arg |-> 0, ret |-> 0]
  /\ UNCHANGED <<chunk_size, chunk_overlap, doc_status, pd_pc,
                 storeVars, embedVars, next_doc, ledgerVars, configVars, serverVars>>

\* one iteration of the while loop (document_processor.py:342-377)
CreateChunksIteration ==
  /\ cc_pc = "loop"
  /\ Len(cc_chunks) < MaxChunks
  /\ LET end == WindowEnd
         chunk_text == Strip(PySlice(cc_text, cc_start, end))
     IN  /\ cc_chunks' = IF Len(chunk_text) > 0
                        THEN Append(cc_chunks, [chunk_index      |-> Len(cc_chunks),
                                             content          |-> chunk_text,
                                             chunk_char_start |-> cc_start,
                                             chunk_char_end   |-> end])
                        ELSE cc_chunks
         /\ cc_start' = end - chunk_overlap
         /\ cc_pc' = IF end - chunk_overlap >= Len(cc_text) THEN "done" ELSE "loop"
  /\ last' = [op |-> "create_chunks", arg |-> 0, ret |-> Len(cc_chunks')]
  /\ UNCHANGED <<chunk_size, chunk_overlap, cc_text, doc_status, pd_pc,
                 storeVars, embedVars, next_doc, ledgerVars, configVars, serverVars>>

(***************************************************************************)
(* DocumentProcessor.process_document: the coroutine in steps, one per     *)
(* assignment to document.status                                           *)
(***************************************************************************)
DocumentStatus == {"pending", "processing", "completed", "failed"}

\* Document.create (document_processor.py:61-66): a new document is PENDING
ProcessDocumentCreate ==
  /\ pd_pc = "idle"
  /\ files = {}
  /\ rebuild = NoRebuild
  /\ upload = NoUpload
  /\ generation = NoGeneration
  /\ doc_status' = "pending"
  /\ pd_pc' = "extract"
  /\ last' = [op |-> "process_document", arg |-> 0, ret |-> "created"]
  /\ UNCHANGED <<chunk_size, chunk_overlap, cc_text, cc_start, cc_chunks, cc_pc,
                 storeVars, embedVars, next_doc, ledgerVars, configVars, serverVars>>

\* "text = await self._extract_text(...)" returns the text of the file and
\* the status becomes PROCESSING (lines 70-75)
ExtractTextReturns(text) ==
  /\ pd_pc = "extract"
  /\ doc_status' = "processing"
  /\ pd_pc' = "chunk"
  /\ cc_text' = text
  /\ cc_start' = 0
  /\ cc_chunks' = <<>>
  /\ cc_pc' = "idle"
  /\ last' = [op |-> "process_document", arg |-> 0, ret |-> "extracted"]
  /\ UNCHANGED <<chunk_size, chunk_overlap,
                 storeVars, embedVars, next_doc, ledgerVars, configVars, serverVars>>

\* _extract_text raises (unsupported format, unreadable file): the handler
\* at lines 104-108 marks the document FAILED and re-raises
ExtractTextRaises ==
  /\ pd_pc = "extract"
  /\ doc_status' = "failed"
  /\ pd_pc' = "raised"
  /\ last' = [op |-> "process_document", arg |-> 0, ret |-> "raised"]
  /\ UNCHANGED <<chunk_size, chunk_overlap, cc_text, cc_start, cc_chunks, cc_pc,
                 storeVars, embedVars, next_doc, ledgerVars, configVars, serverVars>>

\* _create_chunks has returned: chunk_count is set, the status becomes
\* COMPLETED (lines 78-80)
ChunksCreated ==
  /\ pd_pc = "chunk"
  /\ cc_pc = "done"
  /\ doc_status' = "completed"
  /\ pd_pc' = "metadata"
  /\ last' = [op |-> "process_document", arg |-> 0, ret |-> "chunked"]
  /\ UNCHANGED <<chunk_size, chunk_overlap, cc_text, cc_start, cc_chunks, cc_pc,
                 storeVars, embedVars, next_doc, ledgerVars, configVars, serverVars>>

\* the .metadata.json file is written (lines 86-100) and the call returns
\* the document and its chunks
MetadataFileWritten ==
  /\ pd_pc = "metadata"
  /\ pd_pc' = "returned"
  /\ last' = [op |-> "process_document", arg |-> 0, ret |-> "returned"]
  /\ UNCHANGED <<chunk_size, chunk_overlap, cc_text, cc_start, cc_chunks, cc_pc,
                 doc_status,
                 storeVars, embedVars, next_doc, ledgerVars, configVars, serverVars>>

\* open() or json.dump of the .metadata.json file raises: the same handler
\* marks the document FAILED and re-raises
MetadataFileRaises ==
  /\ pd_pc = "metadata"
  /\ doc_status' = "failed"
  /\ pd_pc' = "raised"
  /\ last' = [op |-> "process_document", arg |-> 0, ret |-> "raised"]
  /\ UNCHANGED <<chunk_size, chunk_overlap, cc_text, cc_start, cc_chunks, cc_pc,
                 storeVars, embedVars, next_doc, ledgerVars, configVars, serverVars>>

(***************************************************************************)
(* RAGConfig, ConfigUpdateRequest and RAGService.update_config             *)
(* temperature in 1/10, similarity_threshold in 1/100                      *)
(***************************************************************************)
\* entities.RAGConfig: the defaults of the dataclass
RAGConfig ==
  [top_k                |-> 5,
   temperature          |-> 7,
   max_tokens           |-> 1000,
   chunk_size           |-> 1000,
   chunk_overlap        |-> 200,
   similarity_threshold |-> 10]

\* the settings that update_config overwrites, as read by Settings.from_env
InitialSettings ==
  [DEFAULT_TOP_K |-> 5, TEMPERATURE |-> 7, MAX_TOKENS |-> 1000]

ConfigFields == DOMAIN RAGConfig

\* schemas.ConfigUpdateRequest: Field(ge=..., le=...)
FieldRange ==
  [top_k                |-> [ge |-> 1,   le |-> 20],
   temperature          |-> [ge |-> 0,   le |-> 20],
   max_tokens           |-> [ge |-> 100, le |-> 4000],
   chunk_size           |-> [ge |-> 100, le |-> 5000],
   chunk_overlap        |-> [ge |-> 0,   le |-> 1000],
   similarity_threshold |-> [ge |-> 0,   le |-> 100]]

InRange(key, value) ==
  FieldRange[key].ge <= value /\ value <= FieldRange[key].le

\* pydantic validation of the request body: every supplied field in range
RequestValid(request) ==
  \A key \in DOMAIN request : InRange(key, request[key])

\* RAGService.update_config: the config afterwards
update_config(cfg, config_dict) ==
  [key \in ConfigFields |->
     IF key \in DOMAIN config_dict THEN config_dict[key] ELSE cfg[key]]

\* RAGService.update_config: the global settings afterwards
update_settings(stg, config_dict) ==
  [DEFAULT_TOP_K |-> IF "top_k" \in DOMAIN config_dict
                       THEN config_dict["top_k"] ELSE stg.DEFAULT_TOP_K,
   TEMPERATURE   |-> IF "temperature" \in DOMAIN config_dict
                       THEN config_dict["temperature"] ELSE stg.TEMPERATURE,
   MAX_TOKENS    |-> IF "max_tokens" \in DOMAIN config_dict
                       THEN config_dict["max_tokens"] ELSE stg.MAX_TOKENS]

\* PUT /config (config.py:39-95); an invalid body is answered with 422
\* before the handler runs
UpdateConfiguration(request) ==
  /\ IF RequestValid(request) /\ DOMAIN request # {}
       THEN /\ config' = update_config(config, request)
            /\ settings' = update_settings(settings, request)
       ELSE UNCHANGED configVars
  /\ last' = [op |-> "update_configuration", arg |-> request,
              ret |-> IF RequestValid(request) THEN 200 ELSE 422]
  /\ UNCHANGED <<storeVars, embedVars, next_doc, ledgerVars, chunkVars, serverVars>>

\* POST /config/reset (config.py:125-150)
DefaultConfig ==
  [top_k                |-> 5,
   temperature          |-> 7,
   max_tokens           |-> 1000,
   chunk_size           |-> 1000,
   chunk_overlap        |-> 200,
   similarity_threshold |-> 50]

ResetConfiguration ==
  /\ config' = update_config(config, DefaultConfig)
  /\ settings' = update_settings(settings, DefaultConfig)
  /\ last' = [op |-> "reset_configuration", arg |-> 0, ret |-> 200]
  /\ UNCHANGED <<storeVars, embedVars, next_doc, ledgerVars, chunkVars, serverVars>>

\* GET /config (config.py:19-36): the document_config of get_config
GetConfiguration ==
  /\ last' = [op |-> "get_configuration", arg |-> 0,
              ret |-> [chunk_size    |-> config.chunk_size,
                       chunk_overlap |-> config.chunk_overlap]]
  /\ UNCHANGED <<storeVars, embedVars, next_doc, ledgerVars, chunkVars, configVars, serverVars>>

\* values offered for each field: in range and out of range
FieldValues ==
  [top_k                |-> {1, 25},
   temperature          |-> {0, 50},
   max_tokens           |-> {2000, 50},
   chunk_size           |-> {500, 50},
   chunk_overlap        |-> {100, 2000},
   similarity_threshold |-> {100, 150}]

\* largest number of fields supplied in one request body
MaxRequestFields == 2

\* request bodies: a few of the fields, each with an offered value
ConfigRequests ==
  UNION {{r \in [S -> UNION {FieldValues[k] : k \in S}] :
            \A k \in S : r[k] \in FieldValues[k]} :
         S \in {T \in SUBSET ConfigFields : Cardinality(T) <= MaxRequestFields}}

(***************************************************************************)
(* LLMService.generate and RAGService.ask                                  *)
(***************************************************************************)
\* what the generation API does with a call: it fails, or it answers and
\* reports usage.total_tokens (0: no usage reported)
LlmOutcomes ==
  {[ok |-> FALSE, total_tokens |-> 0]}
    \cup {[ok |-> TRUE, total_tokens |-> t] : t \in {0, 1000000}}

\* a variant that records the usage of one call twice
generate_record_usage_Twice(data, total_tokens) ==
  IF total_tokens # 0
    THEN add_token_usage(add_token_usage(data, total_tokens).data, total_tokens).data
    ELSE data

\* LLMService.generate (llm_service.py:83-104) after a successful API call:
\* the token record afterwards
generate_record_usage(data, total_tokens) ==
  IF total_tokens # 0 THEN add_token_usage(data, total_tokens).data ELSE data

\* did generate call add_token_usage, and did the ledger accept the tokens?
\* (generate does not look at the value returned)
generate_usage_accepted(data, total_tokens) ==
  total_tokens # 0 /\ add_token_usage(data, total_tokens).ret

\* no generation call was made
NoCall == [ok |-> FALSE, total_tokens |-> 0]

\* "k = top_k or self.config.top_k" (0 stands for an absent argument)
OrDefault(value, default) == IF value # 0 THEN value ELSE default

\* a filter that drops a result whose score equals the threshold
PassesThreshold_Strict(r, threshold) == r.similarity_score > threshold

\* the similarity filter of ask (rag_service.py:69-72)
PassesThreshold(r, threshold) == r.similarity_score >= threshold

\* a filter that keeps every result
FilterByThreshold_KeepAll(results, threshold) == results

FilterByThreshold(results, threshold) ==
  LET Keep(r) == PassesThreshold(r, threshold)
  IN  SelectSeq(results, Keep)

\* the source entry returned for a search result (rag_service.py:124-134)
SourceOf(result) ==
  [id               |-> result.chunk_id,
   document_id      |-> result.document_id,
   filename         |-> result.document_name,
   chunk_index      |-> result.chunk_index,
   similarity_score |-> result.similarity_score,
   content          |-> result.content]

\* an optional argument: <<>> when absent (None), <<v>> when supplied
Absent == <<>>

\* Python's "value or default" for an optional number
PyOr(value, default) ==
  IF value = Absent THEN default ELSE OrDefault(value[1], default)

\* the parameters of a generation call that was not made
NotSent == [temperature |-> Absent, max_tokens |-> Absent]

\* RAGService.ask (rag_service.py:28-150); the outcome of the generation
\* call, when one is made, is chosen by the API
RAGServiceAsk(question, top_k, temperature, max_tokens) ==
  LET k == OrDefault(top_k, config.top_k)
      temp == PyOr(temperature, config.temperature)
      tokens == PyOr(max_tokens, config.max_tokens)
      sent == [temperature |-> <<temp>>, max_tokens |-> <<tokens>>]
      search_results == search_by_text(question, k)
      filtered_results == FilterByThreshold(search_results, config.similarity_threshold)
      sources == AsTuple([i \in 1..Len(filtered_results) |->
                            SourceOf(filtered_results[i])])
  IN  /\ SearchEffect(question)
      /\ IF Len(filtered_results) = 0
           THEN \* no relevant documents: the fixed answer
                /\ last' = [op |-> "ask", arg |-> <<question, top_k, temperature, max_tokens>>,
                            ret |-> [answer          |-> "no_relevant_information",
                                     sources         |-> <<>>,
                                     generation_call |-> FALSE,
                                     sent            |-> NotSent,
                                     api             |-> NoCall,
                                     accepted        |-> FALSE,
                                     tokens_used     |-> 0]]
                /\ UNCHANGED ledgerVars
           ELSE \E llm \in LlmOutcomes :
                  IF ~llm.ok
                    THEN \* the generation call raised; ask re-raises
                         /\ last' = [op |-> "ask", arg |-> <<question, top_k, temperature, max_tokens>>,
                                     ret |-> [answer          |-> "error",
                                              sources         |-> <<>>,
                                              generation_call |-> TRUE,
                                              sent            |-> sent,
                                              api             |-> llm,
                                              accepted        |-> FALSE,
                                              tokens_used     |-> 0]]
                         /\ UNCHANGED ledgerVars
                    ELSE /\ token_file' = generate_record_usage(token_file, llm.total_tokens)
                         /\ UNCHANGED <<today, calls>>
                         /\ last' = [op |-> "ask", arg |-> <<question, top_k, temperature, max_tokens>>,
                                     ret |-> [answer          |-> "generated",
                                              sources         |-> sources,
                                              generation_call |-> TRUE,
                                              sent            |-> sent,
                                              api             |-> llm,
                                              accepted        |->
                                                generate_usage_accepted(token_file,
                                                                        llm.total_tokens),
                                              tokens_used     |-> llm.total_tokens]]
      /\ UNCHANGED <<storeVars, next_doc, chunkVars, configVars, serverVars>>

\* RAGService.ask as called by ask_question (chat.py:45-50): question and
\* top_k only
Ask(question, top_k) == RAGServiceAsk(question, top_k, Absent, Absent)

(***************************************************************************)
(* ask_question on the event loop: the coroutine calls the synchronous     *)
(* RAGService.ask (chat.py:45-50), so the thread of the event loop stays   *)
(* inside client.chat.completions.create until the API answers or the      *)
(* client gives up (timeout=60.0, llm_service.py:29-33)                    *)
(***************************************************************************)
\* ask up to the generation call (rag_service.py:53-121)
AskBegin(question, top_k) ==
  LET k == OrDefault(top_k, config.top_k)
      search_results == search_by_text(question, k)
      filtered_results == FilterByThreshold(search_results, config.similarity_threshold)
      sources == AsTuple([i \in 1..Len(filtered_results) |->
                            SourceOf(filtered_results[i])])
  IN  /\ EventLoopFree
      /\ SearchEffect(question)
      /\ IF Len(filtered_results) = 0
           THEN \* no relevant documents: the fixed answer, at once
                /\ last' = [op |-> "ask", arg |-> <<question, top_k, Absent, Absent>>,
                            ret |-> [answer          |-> "no_relevant_information",
                                     sources         |-> <<>>,
                                     generation_call |-> FALSE,
                                     sent            |-> NotSent,
                                     api             |-> NoCall,
                                     accepted        |-> FALSE,
                                     tokens_used     |-> 0]]
                /\ UNCHANGED generation
           ELSE /\ generation' = [pc       |-> "in_flight",
                                  question |-> question,
                                  top_k    |-> top_k,
                                  sources  |-> sources]
                /\ last' = [op |-> "ask_started", arg |-> <<question, top_k>>,
                            ret |-> 0]
      /\ UNCHANGED <<storeVars, next_doc, ledgerVars, chunkVars, configVars,
                     files, rebuild, upload>>

\* the generation call ends (llm_service.py:64-108): the API answered, or
\* the call failed, the timeout of the client included; ask returns or
\* raises (rag_service.py:123-150)
AskReturn ==
  /\ generation.pc = "in_flight"
  /\ \E llm \in LlmOutcomes :
       LET arg == <<generation.question, generation.top_k, Absent, Absent>>
           sent == [temperature |-> <<config.temperature>>,
                    max_tokens  |-> <<config.max_tokens>>]
       IN  IF ~llm.ok
             THEN /\ last' = [op |-> "ask", arg |-> arg,
                              ret |-> [answer          |-> "error",
                                       sources         |-> <<>>,
                                       generation_call |-> TRUE,
                                       sent            |-> sent,
                                       api             |-> llm,
                                       accepted        |-> FALSE,
                                       tokens_used     |-> 0]]
                  /\ UNCHANGED ledgerVars
             ELSE /\ token_file' = generate_record_usage(token_file, llm.total_tokens)
                  /\ UNCHANGED <<today, calls>>
                  /\ last' = [op |-> "ask", arg |-> arg,
                              ret |-> [answer          |-> "generated",
                                       sources         |-> generation.sources,
                                       generation_call |-> TRUE,
                                       sent            |-> sent,
                                       api             |-> llm,
                                       accepted        |->
                                         generate_usage_accepted(token_file,
                                                                 llm.total_tokens),
                                       tokens_used     |-> llm.total_tokens]]
  /\ generation' = NoGeneration
  /\ UNCHANGED <<storeVars, embedVars, next_doc, chunkVars, configVars,
                 files, rebuild, upload>>

\* get_system_stats (chat.py:128-145), a request that needs no generation
ServeStats == EventLoopFree /\ GetStats

(***************************************************************************)
(* A restart of the server process: the module-level services are          *)
(* constructed again, the files stay as they are                           *)
(***************************************************************************)
\* VectorStore.__init__ (vector_store.py:28-36), TFidfEmbeddingService
\* .__init__, TokenUsageMonitor.__init__, RAGService.__init__ and
\* DocumentProcessor.__init__; nothing evaluates VectorStore.index, the only
\* caller of _load_index, so index.faiss and metadata.pkl are not read
Restart ==
  /\ index' = NoIndex
  /\ embedding_dim' = 0
  /\ metadata' = <<>>
  /\ documents' = <<>>
  /\ tfidf_fitted' = FALSE
  /\ es_fitted' = FALSE
  /\ vocabulary' = {}
  /\ token_file' = _check_and_reset_daily_usage(token_file, today)
  /\ calls' = NoCalls
  /\ chunk_size' = CHUNK_SIZE
  /\ chunk_overlap' = CHUNK_OVERLAP
  /\ cc_start' = 0
  /\ cc_chunks' = <<>>
  /\ cc_pc' = "idle"
  /\ doc_status' = "none"
  /\ pd_pc' = "idle"
  /\ config' = RAGConfig
  /\ settings' = InitialSettings
  /\ rebuild' = NoRebuild
  /\ upload' = NoUpload
  /\ generation' = NoGeneration
  /\ last' = [op |-> "restart", arg |-> 0, ret |-> 0]
  /\ UNCHANGED <<disk, files, next_doc, today, cc_text>>

(***************************************************************************)
(* The document endpoints on the event loop: the handlers are coroutines   *)
(* of one thread, a step runs from one suspension to the next.  A handler  *)
(* is suspended inside process_document while a text file is read          *)
(* (document_processor.py:305-306)                                         *)
(***************************************************************************)
\* str(uuid.uuid4()) of the upload that creates Document next_doc: the stem
\* of the saved file; no uuid equals a Document id ("doc_" and 12 digits)
Uuid(n) == 0 - n

\* the stems of the files of the documents directory
Stems == {f.stem : f \in files}

\* the Document ids not yet generated, less those that the running rebuild
\* will generate for the files it has listed
IdsLeft ==
  Len(Md5Prefix) + 1 - next_doc
    - (IF rebuild.pc = "processing" THEN Cardinality(rebuild.todo) ELSE 0)

\* upload_document up to the suspension (document.py:70-93): the file is
\* saved under a new uuid, process_document creates the Document
UploadSaveFile(contents) ==
  /\ EventLoopFree
  /\ upload.pc = "idle"
  /\ Cardinality(files) < NumDocs
  /\ IdsLeft >= 1
  /\ files' = files \cup {[stem |-> Uuid(next_doc), contents |-> contents]}
  /\ upload' = [pc          |-> "processing",
                stem        |-> Uuid(next_doc),
                document_id |-> next_doc,
                contents    |-> contents]
  /\ next_doc' = next_doc + 1
  /\ last' = [op |-> "upload_saved", arg |-> Uuid(next_doc), ret |-> 0]
  /\ UNCHANGED <<storeVars, embedVars, ledgerVars, chunkVars, configVars,
                 rebuild, generation>>

\* upload_document from the suspension on (document.py:95-115): the chunks
\* are encoded and added, the response reports document.id
UploadIndex(saves) ==
  /\ EventLoopFree
  /\ upload.pc = "processing"
  /\ LET contents == upload.contents
         fits == Len(contents) > 0 /\ ~tfidf_fitted
         st == AddDocument(upload.document_id, contents, saves)
     IN  /\ vocabulary' = IF fits THEN FitVocabulary(contents)
                          ELSE EncodeVocabulary(contents)
         /\ es_fitted' = (es_fitted \/ Len(contents) > 0)
         /\ StoreBecomes(st)
         /\ last' = [op |-> "upload", arg |-> upload.stem,
                     ret |-> [document_id |-> upload.document_id,
                              chunks      |-> Len(contents)]]
  /\ upload' = NoUpload
  /\ UNCHANGED <<next_doc, ledgerVars, chunkVars, configVars,
                 files, rebuild, generation>>

\* list_documents (document.py:131-200): one entry per file, id = the stem
ListDocuments ==
  /\ EventLoopFree
  /\ last' = [op |-> "list", arg |-> 0, ret |-> Stems]
  /\ UNCHANGED <<storeVars, embedVars, next_doc, ledgerVars, chunkVars,
                 configVars, serverVars>>

\* delete_document (document.py:203-255)
DeleteDocument(document_id, saves) ==
  /\ EventLoopFree
  /\ IF document_id \notin Stems
       THEN \* no file named after the id: 404
            /\ last' = [op |-> "delete_document", arg |-> document_id,
                        ret |-> [status |-> 404, chunks_deleted |-> 0]]
            /\ UNCHANGED <<storeVars, files>>
       ELSE LET st == delete_by_document_id(document_id, saves)
                deleted_chunks ==
                  IF ~HasIndex THEN 0
                  ELSE Cardinality({j \in 1..Len(metadata) :
                                      metadata[j].document_id = document_id})
            IN  /\ StoreBecomes(st)
                /\ files' = IF st.raised THEN files
                            ELSE {f \in files : f.stem # document_id}
                /\ last' = [op |-> "delete_document", arg |-> document_id,
                            ret |-> [status |-> IF st.raised THEN 500 ELSE 200,
                                     chunks_deleted |-> deleted_chunks]]
  /\ UNCHANGED <<embedVars, next_doc, ledgerVars, chunkVars, configVars,
                 rebuild, upload, generation>>

\* the contents of a list of chunks
ContentsOf(chunks) == AsTuple([i \in 1..Len(chunks) |-> chunks[i].content])

\* rebuild_index up to the first suspension (document.py:320-345): the
\* directory is listed, process_document begins on one of the files
RebuildBegin ==
  /\ EventLoopFree
  /\ rebuild.pc = "idle"
  /\ IdsLeft >= Cardinality(files)
  /\ IF files = {}
       THEN \* all_chunks stays empty: the index is left as it is
            /\ last' = [op |-> "rebuild", arg |-> 0, ret |-> 0]
            /\ UNCHANGED <<rebuild, next_doc>>
       ELSE \E f \in files :
              /\ rebuild' = [pc          |-> "processing",
                             current     |-> f,
                             document_id |-> next_doc,
                             todo        |-> files \ {f},
                             all_chunks  |-> <<>>]
              /\ next_doc' = next_doc + 1
              /\ last' = [op |-> "rebuild_started", arg |-> 0, ret |-> 0]
  /\ UNCHANGED <<storeVars, embedVars, ledgerVars, chunkVars, configVars,
                 files, upload, generation>>

\* rebuild_index from one suspension to the next (document.py:342-368): the
\* chunks of the file are collected; then the next file that still exists
\* is begun, or the index is cleared and the collected chunks are added
RebuildResume ==
  /\ EventLoopFree
  /\ rebuild.pc = "processing"
  /\ LET all_chunks == AsTuple(rebuild.all_chunks \o
                                 MakeChunks(rebuild.document_id,
                                            rebuild.current.contents))
         remaining == rebuild.todo \cap files
         cleared == clear(AllSaved)
         st == add_chunks_to(cleared, all_chunks, Encode(ContentsOf(all_chunks)),
                             0, AllSaved)
     IN  IF remaining # {}
           THEN /\ \E f \in remaining :
                     rebuild' = [pc          |-> "processing",
                                 current     |-> f,
                                 document_id |-> next_doc,
                                 todo        |-> remaining \ {f},
                                 all_chunks  |-> all_chunks]
                /\ next_doc' = next_doc + 1
                /\ last' = [op |-> "rebuild_step", arg |-> 0, ret |-> 0]
                /\ UNCHANGED <<storeVars, embedVars>>
           ELSE /\ rebuild' = NoRebuild
                /\ last' = [op |-> "rebuild", arg |-> 0, ret |-> Len(all_chunks)]
                /\ UNCHANGED next_doc
                /\ IF Len(all_chunks) = 0
                     THEN UNCHANGED <<storeVars, embedVars>>
                     ELSE /\ StoreBecomes(st)
                          \* encode fits a vectorizer never fitted; add_chunks
                          \* fits on all_chunks, clear having reset its flag
                          /\ es_fitted' = TRUE
                          /\ vocabulary' = FitVocabulary(ContentsOf(all_chunks))
  /\ UNCHANGED <<ledgerVars, chunkVars, configVars, files, upload, generation>>

(***************************************************************************)
(* Specification of the vector store                                       *)
(***************************************************************************)
Queries == {<<"a", "b">>, <<"c", "d">>, <<>>}
TopKs == {1, 5}

Init ==
  /\ index = NoIndex
  /\ embedding_dim = 0
  /\ metadata = <<>>
  /\ documents = <<>>
  /\ tfidf_fitted = FALSE
  /\ disk = NoFiles
  /\ es_fitted = FALSE
  /\ vocabulary = {}
  /\ next_doc = 1
  /\ today = 1
  /\ token_file = InitialTokenFile(1)
  /\ calls = NoCalls
  /\ chunk_size = CHUNK_SIZE
  /\ chunk_overlap = CHUNK_OVERLAP
  /\ cc_text = <<>>
  /\ cc_start = 0
  /\ cc_chunks = <<>>
  /\ cc_pc = "idle"
  /\ doc_status = "none"
  /\ pd_pc = "idle"
  /\ files = {}
  /\ rebuild = NoRebuild
  /\ upload = NoUpload
  /\ generation = NoGeneration
  /\ config = RAGConfig
  /\ settings = InitialSettings
  /\ last = [op |-> "init", arg |-> 0, ret |-> 0]

NextStore ==
  \/ \E contents \in ChunkLists : UploadDocument(contents, AllSaved)
  \/ \E d \in 1..NumDocs : DeleteByDocumentId(d, AllSaved)
  \/ Clear(AllSaved)
  \/ GetStats
  \/ \E q \in Queries, k \in TopKs : SearchDocuments(q, k)
  \/ \E q \in Queries, k \in TopKs : DenseSearch(q, k)

SpecStore == Init /\ [][NextStore]_vars

(***************************************************************************)
(* Specification of the token usage monitor                                *)
(***************************************************************************)
NextLedger ==
  \/ \E t \in TokenCounts : AddTokenUsage(t)
  \/ GetTokenUsage
  \/ \E t \in TokenCounts : CheckLimit(t)
  \/ GetUsageHistory
  \/ ResetUsage
  \/ StartMonitor
  \/ AdvanceDay

SpecLedger == Init /\ [][NextLedger]_vars

(***************************************************************************)
(* Specification of the chunk splitter: one call of _create_chunks on a    *)
(* raw text, with CHUNK_SIZE / CHUNK_OVERLAP taken from the environment    *)
(***************************************************************************)
InitChunk ==
  /\ index = NoIndex
  /\ embedding_dim = 0
  /\ metadata = <<>>
  /\ documents = <<>>
  /\ tfidf_fitted = FALSE
  /\ disk = NoFiles
  /\ es_fitted = FALSE
  /\ vocabulary = {}
  /\ next_doc = 1
  /\ today = 1
  /\ token_file = InitialTokenFile(1)
  /\ calls = NoCalls
  /\ chunk_size \in 1..MaxChunkSize
  /\ chunk_overlap \in 0..chunk_size
  /\ cc_text \in RawTexts
  /\ cc_start = 0
  /\ cc_chunks = <<>>
  /\ cc_pc = "idle"
  /\ doc_status = "none"
  /\ pd_pc = "idle"
  /\ files = {}
  /\ rebuild = NoRebuild
  /\ upload = NoUpload
  /\ generation = NoGeneration
  /\ config = RAGConfig
  /\ settings = InitialSettings
  /\ last = [op |-> "init", arg |-> 0, ret |-> 0]

NextChunk ==
  \/ CreateChunksBegin
  \/ CreateChunksIteration

SpecChunk == InitChunk /\ [][NextChunk]_vars

\* the loop of _create_chunks is sequential code: it keeps taking its next
\* iteration as long as there is one
SpecChunkFair == InitChunk /\ [][NextChunk]_vars /\ WF_vars(CreateChunksIteration)

(***************************************************************************)
(* Specification of the configuration endpoints                            *)
(***************************************************************************)
NextConfig ==
  \/ \E r \in ConfigRequests : UpdateConfiguration(r)
  \/ ResetConfiguration

SpecConfig == Init /\ [][NextConfig]_vars

(***************************************************************************)
(* Specification of question answering: documents are uploaded and         *)
(* deleted, the retrieval settings are changed, questions are asked        *)
(***************************************************************************)
Questions == {<<"a", "b">>, <<"c", "d">>}
AskTopKs == {0, 1}

\* request bodies that change the retrieval settings
RetrievalRequests ==
  {r \in ConfigRequests : DOMAIN r \subseteq {"top_k", "similarity_threshold"}}

\* the documents uploaded here: one chunk, or two chunks that share terms
AskChunkLists == {<< <<"a", "b">> >>, << <<"a", "b">>, <<"a", "d">> >>}

\* number of documents uploaded before questions are asked
MaxAskDocs == 1

Next ==
  \/ \E contents \in AskChunkLists : next_doc <= MaxAskDocs /\ UploadDocument(contents, AllSaved)
  \/ \E d \in 1..MaxAskDocs : DeleteByDocumentId(d, AllSaved)
  \/ Clear(AllSaved)
  \/ \E r \in RetrievalRequests : UpdateConfiguration(r)
  \/ ResetConfiguration
  \/ \E q \in Questions, k \in AskTopKs : Ask(q, k)

Spec == Init /\ [][Next]_vars

(***************************************************************************)
(* Specification of the generation parameters: RAGService.ask is called    *)
(* with and without temperature and max_tokens                             *)
(***************************************************************************)
\* temperature in tenths: absent, 0.0, 0.3
AskTemperatures == {Absent, <<0>>, <<3>>}
AskMaxTokens == {Absent, <<500>>}

\* request bodies that change the generation settings
GenerationRequests ==
  {r \in ConfigRequests : DOMAIN r \subseteq {"temperature", "max_tokens"}}

NextAskArgs ==
  \/ \E contents \in AskChunkLists : next_doc <= MaxAskDocs /\ UploadDocument(contents, AllSaved)
  \/ \E r \in GenerationRequests : UpdateConfiguration(r)
  \/ \E q \in Questions, k \in AskTopKs, t \in AskTemperatures, m \in AskMaxTokens :
       RAGServiceAsk(q, k, t, m)

SpecAskArgs == Init /\ [][NextAskArgs]_vars

(***************************************************************************)
(* Specification of ranking: documents are added, then the store is        *)
(* searched for the content of a chunk                                     *)
(***************************************************************************)
\* one document of known words, and documents of other words
RankChunkLists ==
  {<<Contents[1]>>, <<Contents[3]>>, <<Contents[4]>>, <<Contents[3], Contents[4]>>}

RankQueries == {Contents[1], Contents[3], Contents[4]}

NextRank ==
  \/ \E contents \in RankChunkLists : UploadDocument(contents, AllSaved)
  \/ \E q \in RankQueries, k \in TopKs : SearchDocuments(q, k)

SpecRank == Init /\ [][NextRank]_vars

(***************************************************************************)
(* Specification of sentence-aware splitting: one call of _create_chunks   *)
(* with the default parameters on a text of 2500 characters that has one   *)
(* sentence end near 1000 and one near 2000                                *)
(***************************************************************************)
\* positions (0-based) of the two full stops
FirstStops == 980..1020
SecondStops == 1980..2020

\* lowercase letters, with ". A" at the two positions
SentenceText(p1, p2) ==
  [i \in 1..2500 |->
     IF i - 1 \in {p1, p2} THEN "."
     ELSE IF i - 2 \in {p1, p2} THEN " "
     ELSE IF i - 3 \in {p1, p2} THEN "A"
     ELSE "a"]

InitSentences ==
  /\ index = NoIndex
  /\ embedding_dim = 0
  /\ metadata = <<>>
  /\ documents = <<>>
  /\ tfidf_fitted = FALSE
  /\ disk = NoFiles
  /\ es_fitted = FALSE
  /\ vocabulary = {}
  /\ next_doc = 1
  /\ today = 1
  /\ token_file = InitialTokenFile(1)
  /\ calls = NoCalls
  /\ chunk_size = CHUNK_SIZE
  /\ chunk_overlap = CHUNK_OVERLAP
  /\ \E p1 \in FirstStops, p2 \in SecondStops : cc_text = AsTuple(SentenceText(p1, p2))
  /\ cc_start = 0
  /\ cc_chunks = <<>>
  /\ cc_pc = "idle"
  /\ doc_status = "none"
  /\ pd_pc = "idle"
  /\ files = {}
  /\ rebuild = NoRebuild
  /\ upload = NoUpload
  /\ generation = NoGeneration
  /\ config = RAGConfig
  /\ settings = InitialSettings
  /\ last = [op |-> "init", arg |-> 0, ret |-> 0]

NextSentences ==
  \/ CreateChunksBegin
  \/ CreateChunksIteration

SpecSentences == InitSentences /\ [][NextSentences]_vars

(***************************************************************************)
(* Specification of the sentence boundary search: the short texts of       *)
(* SpecChunk, and long texts with one sentence end near the end of the     *)
(* lookahead of the first window                                           *)
(***************************************************************************)
\* positions (0-based) of the full stop, around CHUNK_SIZE + window
LookaheadStops == 1190..1209

\* lowercase letters with ". A" or ". a" at the position
LookaheadText(p, letter) ==
  [i \in 1..1500 |->
     IF i - 1 = p THEN "."
     ELSE IF i - 2 = p THEN " "
     ELSE IF i - 3 = p THEN letter
     ELSE "a"]

\* the processor as constructed, about to split a long text
InitLookahead ==
  /\ index = NoIndex
  /\ embedding_dim = 0
  /\ metadata = <<>>
  /\ documents = <<>>
  /\ tfidf_fitted = FALSE
  /\ disk = NoFiles
  /\ es_fitted = FALSE
  /\ vocabulary = {}
  /\ next_doc = 1
  /\ today = 1
  /\ token_file = InitialTokenFile(1)
  /\ calls = NoCalls
  /\ chunk_size = CHUNK_SIZE
  /\ chunk_overlap = CHUNK_OVERLAP
  /\ \E p \in LookaheadStops, letter \in {"A", "a"} :
       cc_text = AsTuple(LookaheadText(p, letter))
  /\ cc_start = 0
  /\ cc_chunks = <<>>
  /\ cc_pc = "idle"
  /\ doc_status = "none"
  /\ pd_pc = "idle"
  /\ files = {}
  /\ rebuild = NoRebuild
  /\ upload = NoUpload
  /\ generation = NoGeneration
  /\ config = RAGConfig
  /\ settings = InitialSettings
  /\ last = [op |-> "init", arg |-> 0, ret |-> 0]

InitBoundary == InitChunk \/ InitLookahead

SpecBoundary == InitBoundary /\ [][NextChunk]_vars

(***************************************************************************)
(* Specification of the splitting parameters: the configuration is         *)
(* changed and read while a document is split                              *)
(***************************************************************************)
\* request bodies that change the splitting parameters
SplitRequests ==
  {r \in ConfigRequests : DOMAIN r \subseteq {"chunk_size", "chunk_overlap"}}

NextSplitConfig ==
  \/ \E r \in SplitRequests : UpdateConfiguration(r)
  \/ ResetConfiguration
  \/ GetConfiguration
  \/ CreateChunksBegin
  \/ CreateChunksIteration

SpecSplitConfig == InitLookahead /\ [][NextSplitConfig]_vars

(***************************************************************************)
(* Specification of persistence: documents are uploaded, the server is     *)
(* restarted, the store is read                                            *)
(***************************************************************************)
NextRestart ==
  \/ \E contents \in ChunkLists : UploadDocument(contents, AllSaved)
  \/ Restart
  \/ GetStats
  \/ \E q \in Queries, k \in TopKs : SearchDocuments(q, k)

SpecRestart == Init /\ [][NextRestart]_vars

(***************************************************************************)
(* Specification of the document endpoints: files are uploaded, listed     *)
(* and deleted by the ids the server reports, the store is searched        *)
(***************************************************************************)
\* the chunks of the files uploaded here
FileChunkLists == {<<Contents[1]>>, <<Contents[3], Contents[4]>>}

\* a Document id or the uuid of a file
DocumentIds == Stems \cup {0 - stem : stem \in Stems}

NextDocuments ==
  \/ \E contents \in FileChunkLists : next_doc <= NumDocs /\ UploadSaveFile(contents)
  \/ UploadIndex(AllSaved)
  \/ ListDocuments
  \/ \E id \in DocumentIds : DeleteDocument(id, AllSaved)
  \/ \E q \in RankQueries, k \in TopKs : EventLoopFree /\ SearchDocuments(q, k)

SpecDocuments == Init /\ [][NextDocuments]_vars

(***************************************************************************)
(* Specification of the index rebuild: files are uploaded and deleted      *)
(* while rebuild_index runs                                                *)
(***************************************************************************)
NextRebuild ==
  \/ \E contents \in FileChunkLists : UploadSaveFile(contents)
  \/ UploadIndex(AllSaved)
  \/ \E stem \in Stems : DeleteDocument(stem, AllSaved)
  \/ RebuildBegin
  \/ RebuildResume
  \/ EventLoopFree /\ GetStats

SpecRebuild == Init /\ [][NextRebuild]_vars

(***************************************************************************)
(* Specification of the event loop: questions are asked, and other         *)
(* requests arrive, while generation calls are made                        *)
(***************************************************************************)
NextLoop ==
  \/ \E contents \in AskChunkLists :
       next_doc <= NumDocs /\ EventLoopFree /\ UploadDocument(contents, AllSaved)
  \/ \E q \in Questions, k \in AskTopKs : AskBegin(q, k)
  \/ AskReturn
  \/ ServeStats
  \/ \E q \in Questions, k \in TopKs : EventLoopFree /\ SearchDocuments(q, k)

\* a generation call ends: the API answers, or the client times out
SpecLoop == Init /\ [][NextLoop]_vars /\ WF_vars(AskReturn)

(***************************************************************************)
(* The store on a disk that can fail: every call of _save_index may write  *)
(* both files, only index.faiss, or nothing                                *)
(***************************************************************************)
SaveChunkLists == {<<>>, <<Contents[1]>>, <<Contents[1], Contents[2]>>}

NextSave ==
  \/ \E contents \in SaveChunkLists, saves \in SaveSequences :
       UploadDocument(contents, saves)
  \/ \E d \in 1..NumDocs, saves \in SaveSequences : DeleteByDocumentId(d, saves)
  \/ \E saves \in SaveSequences : Clear(saves)

SpecSave == Init /\ [][NextSave]_vars

(***************************************************************************)
(* Specification of process_document: one uploaded file is processed       *)
(***************************************************************************)
NextProcess ==
  \/ ProcessDocumentCreate
  \/ \E text \in RawTexts : ExtractTextReturns(text)
  \/ ExtractTextRaises
  \/ pd_pc = "chunk" /\ CreateChunksBegin
  \/ pd_pc = "chunk" /\ CreateChunksIteration
  \/ ChunksCreated
  \/ MetadataFileWritten
  \/ MetadataFileRaises

SpecProcess == Init /\ [][NextProcess]_vars

(***************************************************************************)
(* Specification of overlapping ledger calls: two adds and one rollover    *)
(* check, while the date may change                                        *)
(***************************************************************************)
\* token counts added by the overlapping calls
RaceTokens == {1, 1000000, 2000000}

NextRace ==
  \/ \E c \in Adders, tokens \in RaceTokens : AddRead(c, tokens)
  \/ \E c \in Adders : AddWrite(c)
  \/ RolloverRead
  \/ RolloverWrite
  \/ AdvanceDay

SpecRace == Init /\ [][NextRace]_vars

(***************************************************************************)
(* Properties                                                              *)
(***************************************************************************)
\* number of vectors held by a faiss index value
NtotalOf(idx) == IF Len(idx) = 1 THEN Len(idx[1]) ELSE 0

\* the entries of an ordered map that do not belong to the given ids
WithoutIds(d, ids) ==
  LET Keep(e) == e.id \notin ids
  IN  SelectSeq(d, Keep)

\* C1: delete_by_document(d) removes from the ANN structure, the metadata
\* map and the cached-content map exactly the entries whose document_id is
\* d, returns the number of entries removed, and leaves the entries of
\* every other document as they were.
C1_DeleteRemovesExactly ==
  [][ last'.op = "delete" =>
        LET d == last'.arg
            gone == {j \in 1..Len(metadata) : metadata[j].document_id = d}
            ids == {metadata[j].id : j \in gone}
        IN  /\ metadata' = WithoutIds(metadata, ids)
            /\ documents' = WithoutIds(documents, ids)
            /\ NtotalOf(index') = NtotalOf(index) - Cardinality(gone)
            /\ last'.ret = Cardinality(gone) ]_vars

\* C2: in every reachable state the number of vectors held by the ANN
\* structure equals the number of metadata entries and the number of cached
\* chunk contents.
C2_CountsAgree ==
  /\ get_stats.total_vectors = get_stats.metadata_count
  /\ get_stats.total_vectors = Len(documents)

\* the character positions covered by the chunk ranges
CoveredPositions ==
  UNION {cc_chunks[i].chunk_char_start .. (cc_chunks[i].chunk_char_end - 1) :
           i \in 1..Len(cc_chunks)}

ValidChunkParameters == 0 <= chunk_overlap /\ chunk_overlap < chunk_size

\* C3: for a non-empty text and 0 <= overlap < chunk_size, the chunks have
\* non-decreasing char_start and the union of their [char_start, char_end)
\* ranges is exactly [0, length of the cleaned text).
C3_ChunksCoverText ==
  (cc_pc = "done" /\ Len(Strip(cc_text)) > 0 /\ ValidChunkParameters) =>
     /\ \A i \in 1..(Len(cc_chunks) - 1) :
          cc_chunks[i].chunk_char_start <= cc_chunks[i + 1].chunk_char_start
     /\ CoveredPositions = 0..(Len(cc_text) - 1)

\* C4: with parameters that violate 0 <= overlap < chunk_size the split
\* fails before producing any chunk.
C4_FailFast ==
  ~ValidChunkParameters => Len(cc_chunks) = 0

LedgerAccessOps ==
  {"add_token_usage", "get_token_usage", "check_limit", "get_usage_history"}

\* C5: daily rollover: with usage U recorded on day D, any ledger access
\* performed first on day D+1 leaves history[D] = U, last_reset_date = D+1
\* and daily_usage = the tokens that the access itself added.
C5_DailyRollover ==
  [][ (token_file.last_reset_date + 1 = today /\ last'.op \in LedgerAccessOps) =>
        /\ token_file.last_reset_date \in DOMAIN token_file'.usage_history
        /\ token_file'.usage_history[token_file.last_reset_date]
             = token_file.daily_usage
        /\ token_file'.last_reset_date = today
        /\ token_file'.daily_usage =
             IF last'.op = "add_token_usage" /\ last'.ret THEN last'.arg ELSE 0 ]_vars

\* C6: usage of an earlier day never counts against the current day's
\* quota: when last_reset_date is before the current date, add(tokens) with
\* tokens <= quota succeeds.
C6_EarlierDayNotCounted ==
  [][ (/\ token_file.last_reset_date < today
       /\ last'.op = "add_token_usage"
       /\ last'.arg <= token_limit) => last'.ret = TRUE ]_vars

\* C7: add(tokens) fails if and only if daily_usage + tokens exceeds the
\* quota; on failure the stored record is unchanged, on success daily_usage
\* becomes daily_usage + tokens and nothing else changes.
C7_AddWithinQuota ==
  [][ last'.op = "add_token_usage" =>
        /\ (last'.ret = FALSE) <=> (token_file.daily_usage + last'.arg > token_limit)
        /\ (last'.ret = FALSE) => token_file' = token_file
        /\ (last'.ret = TRUE) =>
             token_file' = [last_reset_date |-> token_file.last_reset_date,
                            daily_usage     |-> token_file.daily_usage + last'.arg,
                            usage_history   |-> token_file.usage_history] ]_vars

\* an add was refused with the counter at the quota
C7_Witness ==
  /\ last.op = "add_token_usage"
  /\ last.ret = FALSE
  /\ token_file.daily_usage = token_limit

\* C8: a config update request with an out-of-range value for one field and
\* in-range values for other fields leaves the out-of-range field at its
\* prior value and applies the others; every field stays within its range.
C8_PerFieldRejection ==
  [][ last'.op = "update_configuration" =>
        /\ \A key \in DOMAIN last'.arg :
             config'[key] = IF InRange(key, last'.arg[key])
                              THEN last'.arg[key] ELSE config[key]
        /\ \A key \in ConfigFields : InRange(key, config'[key]) ]_vars

\* the top_k that ask searches with
AskedTopK == IF last'.arg[2] # 0 THEN last'.arg[2] ELSE config.top_k

\* C9: ask issues a generation call if and only if at least one retrieved
\* result has similarity >= similarity_threshold; otherwise (in particular
\* with no document ingested) it returns the fixed answer with no sources
\* and leaves the ledger unchanged.
C9_GenerationIffRelevant ==
  [][ last'.op = "ask" =>
        \E retrieved \in {search_by_text(last'.arg[1], AskedTopK)} :
          LET relevant == \E i \in 1..Len(retrieved) :
                            retrieved[i].similarity_score >= config.similarity_threshold
          IN  /\ last'.ret.generation_call <=> relevant
              /\ Len(documents) = 0 => ~last'.ret.generation_call
              /\ ~last'.ret.generation_call =>
                   /\ last'.ret.answer = "no_relevant_information"
                   /\ last'.ret.sources = <<>>
                   /\ token_file' = token_file ]_vars

\* documents are ingested and tokens were used, yet a question finds
\* nothing relevant
C9_Witness ==
  /\ last.op = "ask"
  /\ ~last.ret.generation_call
  /\ Len(documents) > 0
  /\ token_file.daily_usage > 0

\* C10: the sources returned by ask are exactly the results of the precise
\* search for top_k chunks whose similarity is >= the threshold, in rank
\* order; no source is below the threshold and there are at most top_k.
C10_SourcesAreFilteredTopK ==
  [][ (last'.op = "ask" /\ last'.ret.answer # "error") =>
        \E retrieved \in {search_by_text(last'.arg[1], AskedTopK)} :
        \E sources \in {last'.ret.sources} :
          LET AtLeastThreshold(r) == r.similarity_score >= config.similarity_threshold
          IN
          \E passing \in {SelectSeq(retrieved, AtLeastThreshold)} :
            /\ Len(sources) = Len(passing)
            /\ \A n \in 1..Len(sources) :
                 /\ sources[n].id = passing[n].chunk_id
                 /\ sources[n].document_id = passing[n].document_id
                 /\ sources[n].similarity_score = passing[n].similarity_score
                 /\ sources[n].similarity_score >= config.similarity_threshold
            /\ Len(sources) <= AskedTopK
            /\ \A n \in 1..(Len(sources) - 1) :
                 sources[n].similarity_score >= sources[n + 1].similarity_score ]_vars

\* a question answered from one source although two chunks were retrieved:
\* the other one was below the threshold
C10_Witness ==
  /\ last.op = "ask"
  /\ last.ret.answer = "generated"
  /\ Len(last.ret.sources) = 1
  /\ Len(search_by_text(last.arg[1], OrDefault(last.arg[2], config.top_k))) >= 2

\* the characters of a text
CharsOf(text) == {text[i] : i \in 1..Len(text)}

\* two texts without a common character
Unrelated(s, t) == CharsOf(s) \cap CharsOf(t) = {}

\* C11: after any sequence of adds, a text search for the exact content of
\* a chunk of the document added last returns that chunk first, with a
\* similarity strictly above the score of every unrelated chunk.
C11_ExactContentRankedFirst ==
  (/\ last.op = "search"
   /\ \E i \in 1..Len(metadata) :
        /\ metadata[i].document_id = next_doc - 1
        /\ metadata[i].content = last.arg[1]) =>
     /\ Len(last.ret) > 0
     /\ last.ret[1].content = last.arg[1]
     /\ last.ret[1].document_id = next_doc - 1
     /\ \A j \in 2..Len(last.ret) :
          Unrelated(last.ret[j].content, last.arg[1]) =>
            last.ret[1].similarity_score > last.ret[j].similarity_score

\* C12: a dense search for k entries on an index holding N vectors returns
\* min(k, N) results; it returns the empty list only when the index is
\* empty.
C12_DenseSearchReturnsMinKN ==
  last.op = "dense_search" =>
    /\ Len(last.ret) = Min(last.arg[2], Ntotal)
    /\ (Len(last.ret) = 0 => Ntotal = 0)

\* the position of the full stop of a text within a range of positions
StopIn(positions) == CHOOSE p \in positions : At(cc_text, p) = "."

\* C13: a cleaned text of 2500 characters with sentence ends within
\* 980-1020 and 1980-2020, split with chunk_size 1000 and overlap 200,
\* yields exactly 3 chunks; the first two chunks end at the sentence ends
\* and each chunk overlaps the next one by 200 characters.
C13_ThreeChunksAtSentenceEnds ==
  (cc_pc = "done" /\ Len(cc_text) = 2500 /\ chunk_size = 1000 /\ chunk_overlap = 200) =>
     /\ Len(cc_chunks) = 3
     /\ cc_chunks[1].chunk_char_end = StopIn(FirstStops) + 1
     /\ cc_chunks[2].chunk_char_end = StopIn(SecondStops) + 1
     /\ \A i \in 1..2 :
          cc_chunks[i].chunk_char_end - cc_chunks[i + 1].chunk_char_start = 200

\* the contents of the chunks that the add of document doc left in the
\* metadata m
AddedContents(m, doc) ==
  {m[i].content : i \in {j \in 1..Len(m) : m[j].document_id = doc}}

\* the store is empty and every search on it returns the empty list
ClearedStore ==
  /\ Ntotal = 0
  /\ Len(metadata) = 0
  /\ Len(documents) = 0
  /\ ~tfidf_fitted
  /\ \A q \in Queries, k \in TopKs :
       /\ search(SparseVector(q, vocabulary), k) = <<>>
       /\ search_by_text(q, k) = <<>>

\* the first add of chunks to a store whose vectorizer flag is reset fits
\* the vectorizer on exactly the chunks it adds
FreshFitOnAdd ==
  (~tfidf_fitted /\ last'.op = "add" /\ last'.ret > 0)
    => vocabulary' = UNION {CharWbNgrams(c) : c \in AddedContents(metadata', last'.arg)}

\* C14: after clear(), whatever the state before, the index holds no
\* vectors, no metadata and no cached contents, every dense search and
\* every text search returns the empty list, and the next add of chunks
\* fits the vectorizer afresh on the chunks it adds.
C14_ClearEmptiesAndRefits ==
  /\ [](last.op = "clear" => ClearedStore)
  /\ [][FreshFitOnAdd]_vars

\* a clear of a store that held chunks of an earlier upload
C14_Witness ==
  /\ last.op = "clear"
  /\ es_fitted
  /\ next_doc > 1
  /\ disk.metadata_file = <<[metadata |-> <<>>, documents |-> <<>>,
                             embedding_dim |-> FaissDimension]>>

\* the in-memory part of a store value, and of the state
InMemory(st) == <<st.index, st.embedding_dim, st.metadata, st.documents, st.tfidf_fitted>>
InMemoryNow == <<index, embedding_dim, metadata, documents, tfidf_fitted>>

\* the step is an add, a delete or a clear that returned normally and left
\* the in-memory store that the same call leaves when every write succeeds
SaveFailureIsSwallowed ==
  /\ last'.op = "add" =>
       /\ ~last'.raised
       /\ \E contents \in SaveChunkLists :
            /\ Len(contents) = last'.ret
            /\ InMemoryNow' = InMemory(AddDocument(last'.arg, contents, AllSaved))
  /\ last'.op = "delete" =>
       /\ ~last'.raised
       /\ InMemoryNow' = InMemory(delete_by_document_id(last'.arg, AllSaved))
  /\ last'.op = "clear" =>
       /\ ~last'.raised
       /\ InMemoryNow' = InMemory(clear(AllSaved))

\* C15: when writing the index file or the metadata file fails during an
\* add, a delete by document or a clear, the operation still returns without
\* raising and the in-memory index, metadata and cached contents are those
\* that the operation leaves when the save succeeds.
C15_SaveFailureKeepsMemory == [][SaveFailureIsSwallowed]_vars

\* chunks were added and are in memory although no file was ever written
C15_Witness ==
  /\ last.op = "add"
  /\ last.ret > 0
  /\ ~last.raised
  /\ Ntotal = last.ret
  /\ Len(metadata) = last.ret
  /\ disk = NoFiles

\* C16: when ask makes a generation call that succeeds and reports T total
\* tokens, with daily_usage + T within the quota, daily_usage afterwards is
\* exactly T higher than before (the call is recorded once, not twice) and
\* the tokens_used of the result is T.
C16_UsageRecordedOnce ==
  [][ (/\ last'.op = "ask"
       /\ last'.ret.api.ok
       /\ token_file.daily_usage + last'.ret.api.total_tokens <= token_limit)
      => /\ token_file'.daily_usage
              = token_file.daily_usage + last'.ret.api.total_tokens
         /\ last'.ret.tokens_used = last'.ret.api.total_tokens
         /\ last'.ret.answer = "generated" ]_vars

\* an answered question whose tokens filled the quota exactly
C16_Witness ==
  /\ last.op = "ask"
  /\ last.ret.answer = "generated"
  /\ last.ret.accepted
  /\ last.ret.tokens_used > 0
  /\ token_file.daily_usage = token_limit

\* C17: the quota is advisory.  In any ledger state, also with daily_usage
\* equal to the quota, ask with a passing retrieval result issues the
\* generation call and returns the generated answer when the call succeeds;
\* when the ledger refuses the reported tokens, daily_usage stays as it was
\* and ask still returns the answer.
C17_QuotaIsAdvisory ==
  [][ last'.op = "ask" =>
        /\ \E retrieved \in {search_by_text(last'.arg[1], AskedTopK)} :
             (\E i \in 1..Len(retrieved) :
                retrieved[i].similarity_score >= config.similarity_threshold)
               => last'.ret.generation_call
        /\ last'.ret.api.ok =>
             /\ last'.ret.answer = "generated"
             /\ last'.ret.tokens_used = last'.ret.api.total_tokens
        /\ (/\ last'.ret.api.ok
            /\ token_file.daily_usage + last'.ret.api.total_tokens > token_limit)
           => /\ ~last'.ret.accepted
              /\ token_file' = token_file ]_vars

\* a question answered with the quota used up: the ledger refused the
\* tokens of the call
C17_Witness ==
  /\ last.op = "ask"
  /\ last.ret.answer = "generated"
  /\ last.ret.tokens_used > 0
  /\ ~last.ret.accepted
  /\ token_file.daily_usage = token_limit

\* C18: on the first add, when no index exists, the index is created with
\* a dimension equal to the length of the first supplied vector, and that
\* dimension is the one reported by get_stats.
C18_DimensionFromFirstVector ==
  [][ (~HasIndex /\ last'.op = "add" /\ last'.ret > 0) =>
        \A contents \in ChunkLists :
          (/\ Len(contents) = last'.ret
           /\ InMemoryNow' = InMemory(AddDocument(last'.arg, contents, AllSaved)))
          => /\ embedding_dim' = Encode(contents)[1].len
             /\ get_stats'.dimension = Encode(contents)[1].len ]_vars

\* the changes of status that the lifecycle allows
LifecycleSteps ==
  {<<"none", "pending">>, <<"pending", "processing">>,
   <<"processing", "completed">>, <<"processing", "failed">>}

\* C19: the status of a document only changes along PENDING -> PROCESSING
\* -> COMPLETED or PENDING -> PROCESSING -> FAILED: it is PROCESSING while
\* the text is being extracted, FAILED is reached only from PROCESSING, and
\* COMPLETED and FAILED are never left.
C19_StatusLifecycle ==
  /\ [][doc_status' # doc_status => <<doc_status, doc_status'>> \in LifecycleSteps]_vars
  /\ [](pd_pc = "extract" => doc_status = "processing")

\* the sum of the usage kept in the history
RECURSIVE SumHistory(_, _)
SumHistory(h, days) ==
  IF days = {} THEN 0
  ELSE LET d == CHOOSE x \in days : TRUE
       IN  h[d] + SumHistory(h, days \ {d})

\* every call has returned and both adds reported success
BothAddsSucceeded ==
  /\ \A c \in Adders : calls[c].pc = "done" /\ calls[c].ret
  /\ calls[Roller].pc \in {"idle", "done"}

\* C20: no update of the token usage is lost.  For every interleaving of
\* two overlapping add(t1) and add(t2) that both report success, the final
\* daily_usage is the initial daily_usage (0) + t1 + t2; with an overlapping
\* rollover the usage moved to the history is counted as well.
C20_NoLostUpdate ==
  BothAddsSucceeded =>
    token_file.daily_usage
        + SumHistory(token_file.usage_history, DOMAIN token_file.usage_history)
      = calls["adder1"].tokens + calls["adder2"].tokens

\* C25: for every text and all 0 <= overlap < chunk_size the split
\* terminates: on every iteration the window start increases by at least
\* chunk_size - overlap, and the loop ends.
C25_SplitTerminates ==
  /\ [][ (ValidChunkParameters /\ cc_pc = "loop")
           => cc_start' >= cc_start + (chunk_size - chunk_overlap) ]_vars
  /\ ((ValidChunkParameters /\ cc_pc = "loop") ~> (cc_pc = "done"))

\* a split with an overlap that ended after several chunks
C25_Witness ==
  /\ cc_pc = "done"
  /\ ValidChunkParameters
  /\ chunk_overlap > 0
  /\ Len(cc_chunks) >= 3

\* the sentence-ending marks of the text that count for a window with raw
\* end e: within the 200 characters from e on, followed by a space, and
\* that space not followed by a lowercase letter
SentenceMarks(e) ==
  {i \in e..(Min(e + 200, Len(cc_text)) - 1) :
     /\ At(cc_text, i) \in {".", "!", "?"}
     /\ i + 1 < Len(cc_text)
     /\ At(cc_text, i + 1) = " "
     /\ ~(i + 2 < Len(cc_text) /\ At(cc_text, i + 2) = "a")}

\* where the claim cuts the window with raw end e
ExpectedCut(e) ==
  IF SentenceMarks(e) = {} THEN e
  ELSE 1 + CHOOSE i \in SentenceMarks(e) : \A j \in SentenceMarks(e) : i <= j

\* C26: a window whose raw end e = start + chunk_size lies before the end of
\* the cleaned text is cut just after the first sentence-ending mark found
\* from e on within the 200-character lookahead that is followed by a space
\* and not by a space and a lowercase letter, and at e when there is no such
\* mark; no chunk range is longer than chunk_size + 200.
C26_CutAtFirstSentenceEnd ==
  [][ (cc_pc = "loop" /\ chunk_size > chunk_overlap) =>
        \E end \in {cc_start' + chunk_overlap} :
          /\ cc_start + chunk_size < Len(cc_text) => end = ExpectedCut(cc_start + chunk_size)
          /\ end - cc_start <= chunk_size + 200
          /\ \A n \in (Len(cc_chunks) + 1)..Len(cc_chunks') :
               /\ cc_chunks'[n].chunk_char_start = cc_start
               /\ cc_chunks'[n].chunk_char_end = end ]_vars

\* the first chunk of a long text was cut at the last position of the
\* lookahead
C26_Witness ==
  /\ cc_pc = "done"
  /\ chunk_size = CHUNK_SIZE
  /\ Len(cc_chunks) >= 1
  /\ cc_chunks[1].chunk_char_end = CHUNK_SIZE + 200

\* C27: for valid parameters, the chunk whose window first reaches the end
\* of the cleaned text is the last chunk of the split: no chunk follows it,
\* so no chunk's text lies entirely inside the chunk before it.
C27_LastChunkReachesEnd ==
  (cc_pc = "done" /\ ValidChunkParameters) =>
     \A n \in 1..(Len(cc_chunks) - 1) :
        /\ cc_chunks[n].chunk_char_end < Len(cc_text)
        /\ \E pos \in cc_chunks[n + 1].chunk_char_start ..
                      (Min(cc_chunks[n + 1].chunk_char_end, Len(cc_text)) - 1) :
              pos >= cc_chunks[n].chunk_char_end

\* C28: after every add, the vocabulary of the embedding service covers the
\* terms of all the chunks stored, not only those of the first add.
C28_VocabularyCoversStore ==
  last.op = "add" =>
    \A i \in 1..Len(documents) :
       CharWbNgrams(documents[i].content) \subseteq vocabulary

\* C24: chunk_size and chunk_overlap can be changed with update_config:
\* what get_config reports are the values the splitter works with, and a
\* window of a document split after the change has its raw end chunk_size
\* after its start and is followed by a window that starts chunk_overlap
\* before its end, for the configured chunk_size and chunk_overlap.
C24_SplitterFollowsConfig ==
  /\ [](last.op = "get_configuration" =>
          /\ last.ret.chunk_size = chunk_size
          /\ last.ret.chunk_overlap = chunk_overlap)
  /\ [][ cc_pc = "loop" =>
           \E end \in (cc_start + config.chunk_size) ..
                      (cc_start + config.chunk_size + 200) :
              cc_start' = end - config.chunk_overlap ]_vars

\* C29: ask uses the caller's top_k, temperature and max_tokens whenever
\* they are supplied, a temperature of 0 included; the configured default is
\* used only for an argument that is absent.
C29_SuppliedArgumentsUsed ==
  (last.op = "ask" /\ last.ret.generation_call) =>
     /\ last.arg[2] # 0 => Len(last.ret.sources) <= last.arg[2]
     /\ last.ret.sent.temperature =
          IF last.arg[3] = Absent THEN <<config.temperature>> ELSE last.arg[3]
     /\ last.ret.sent.max_tokens =
          IF last.arg[4] = Absent THEN <<config.max_tokens>> ELSE last.arg[4]

\* the entries of metadata.pkl
SavedMetadata ==
  IF Len(disk.metadata_file) = 0 THEN <<>> ELSE disk.metadata_file[1].metadata

\* C23: the vector index is persistent: right after a restart get_stats and
\* search_by_text yield what they yielded before it, and the first add
\* after a restart keeps the entries that were saved.
C23_IndexSurvivesRestart ==
  /\ [][ last'.op = "restart" =>
           /\ get_stats' = get_stats
           /\ \A q \in Queries, k \in TopKs :
                Len(search_by_text(q, k)') = Len(search_by_text(q, k)) ]_vars
  /\ [][ (last.op = "restart" /\ last'.op = "add") =>
           \A i \in 1..Len(SavedMetadata) :
              \E j \in 1..Len(metadata') : metadata'[j] = SavedMetadata[i] ]_vars

\* the Document that an id reported by the server stands for: the id of
\* the upload response, or the id of the listing (the stem of its file)
DocumentOf(id) == IF id < 0 THEN 0 - id ELSE id

\* C30: deleting an uploaded document by the id that the upload response or
\* the listing reported succeeds, reports the number of chunks that were
\* indexed for it, and leaves no chunk of the document in the store.
C30_DeleteByReportedId ==
  [][ (/\ last'.op = "delete_document"
       /\ Uuid(DocumentOf(last'.arg)) \in Stems
       /\ upload.pc = "idle") =>
        /\ last'.ret.status = 200
        /\ last'.ret.chunks_deleted =
             Cardinality({j \in 1..Len(metadata) :
                            metadata[j].document_id = DocumentOf(last'.arg)})
        /\ \A j \in 1..Len(metadata') :
             metadata'[j].document_id # DocumentOf(last'.arg) ]_vars

\* the chunk contents held by the store
StoredContents == {metadata[i].content : i \in 1..Len(metadata)}

\* C21: mutations of the index exclude each other: no chunk of an upload
\* that completed is lost when a rebuild (or a delete of another document)
\* is interleaved with it, and a rebuild that has not finished has not
\* changed what a search sees.
C21_CompletedAddNotLost ==
  /\ [](\A f \in files :
          (upload.pc = "idle" \/ upload.stem # f.stem) =>
             \A i \in 1..Len(f.contents) : f.contents[i] \in StoredContents)
  /\ [][ last'.op \in {"rebuild_started", "rebuild_step"} =>
           UNCHANGED <<index, metadata, documents>> ]_vars

\* C22: while a generation call is in flight a request that needs no
\* generation can be served, and every generation call ends, a call that
\* the API never answers included, so that ask returns or fails.
C22_GenerationDoesNotBlock ==
  /\ [](generation.pc = "in_flight" => ENABLED ServeStats)
  /\ (generation.pc = "in_flight") ~> (generation.pc = "idle" /\ last.op = "ask")

====
